---- MODULE Spec2Model ----
(***************************************************************************)
(* Catalog extractor: the batch loops that turn selected PDF pages into    *)
(* product records, and the page/region image-extraction engine.           *)
(*                                                                         *)
(* Two batch loops exist in the repository.  The sequential one            *)
(* (src/unnamed/part_000, handleStartProcessing) loads one document at a   *)
(* time and renders and recognises page by page.  The cancellable one      *)
(* (src/App.tsx, handleStartProcessing) first renders every file with      *)
(* renderPdfPages and then submits the images with extractProductInfo,     *)
(* checking isCancelledRef.  A behaviour runs one of the two (variable     *)
(* app, fixed by Init).  Further specifications exercise the image engine  *)
(* (SpecImage, SpecApi, SpecScore, SpecPage), its byte conversion          *)
(* (SpecRaster) and extractProductDataFromPage called on its own           *)
(* (SpecService).                                                          *)
(*                                                                         *)
(* JavaScript is single threaded: the code between two awaits is one       *)
(* atomic step.  Every action below is one such step.                      *)
(***************************************************************************)
EXTENDS Integers, Sequences, FiniteSets, TLC

(***************************************************************************)
(* Bounds of the model.                                                    *)
(***************************************************************************)
MaxPage == 2       \* pages per document: page numbers are 1..MaxPage
MaxProducts == 1   \* products the recognition service returns for a page
MaxOps == 2        \* operators of a page's operator list
MaxObjs == 2       \* image objects a page holds in objs and commonObjs together

FileNames == <<"a.pdf", "b.pdf">>

Pages == 1..MaxPage

VARIABLES
  app,            \* "seq" (part_000), "cancel" (App.tsx), "image", "api" or
                  \* "raster" (part_008), "service" (geminiService.ts)
  files,          \* useState<File[]>: the files, by name, in list order
  selectedPages,  \* useState<Map<string, Set<number>>>
  apiKeyConfig,   \* useState<ApiKeyConfig>: mode, and hasKey: the key that mode
                  \* resolves to (customKey, or process.env.API_KEY) is not empty
  status,         \* part_000: useState<ProcessingStatus>
  results,        \* part_000: useState<ProductData[]>
  progress,       \* part_000: useState<ProcessingProgress | null>, <<>> is null
  error,          \* part_000: useState<string | null>
  runs,           \* part_000: the invocations of handleStartProcessing
  processingState,\* App.tsx: useState<ProcessingState>
  extractedData,  \* App.tsx: useState<ProductData[]>
  isCancelledRef, \* App.tsx: useRef(false)
  task,           \* App.tsx: the invocation of handleStartProcessing
  page,           \* part_008: the PDFPageProxy: operator list, objs, commonObjs
  box_2d,         \* part_008: the region [ymin, xmin, ymax, xmax]
  call,           \* part_008: the extraction of the region's image
  raster,         \* part_008: a candidate's imgObj and the ImageData made of it
  service         \* geminiService.ts: one call of extractProductDataFromPage

imageVars == <<page, box_2d, call, raster, service>>
input == <<app, files, selectedPages, apiKeyConfig, imageVars>>
seqVars == <<status, results, runs>>
cancelVars == <<processingState, extractedData, isCancelledRef, task>>
vars == <<input, seqVars, cancelVars, progress, error>>

(***************************************************************************)
(* Helpers                                                                 *)
(***************************************************************************)
Range(s) == {s[i] : i \in 1..Len(s)}

\* The sequences over S without repetition.
RECURSIVE DistinctSeqs(_)
DistinctSeqs(S) ==
  IF S = {} THEN {<<>>}
  ELSE {<<>>} \cup UNION {{<<x>> \o t : t \in DistinctSeqs(S \ {x})} : x \in S}

\* Array.from(pages): a Set<number> iterates in insertion order, which is
\* the order of the user's clicks: any order of the elements.
ArrayFrom(S) == {s \in DistinctSeqs(S) : Len(s) = Cardinality(S)}

\* The number of products on a page: none or MaxProducts.
ProductCounts == {0, MaxProducts}

FileSet == Range(FileNames)

ApiKeyConfigs == [mode : {"default", "custom"}, hasKey : BOOLEAN]

\* Array.prototype.filter
RECURSIVE Filter(_, _)
Filter(s, keep) ==
  IF s = <<>> THEN <<>>
  ELSE (IF Head(s) \in keep THEN <<Head(s)>> ELSE <<>>) \o Filter(Tail(s), keep)

\* The pages in the order of the selection, unsorted.
NoSort(s) == s

\* (Array.from(pages) as number[]).sort((a, b) => a - b): the elements of
\* the selection in ascending numeric order.
SortPages(s) ==
  CHOOSE t \in [1..Len(s) -> Range(s)] :
    /\ Range(t) = Range(s)
    /\ \A i, j \in 1..Len(s) : i < j => t[i] < t[j]

(***************************************************************************)
(* The recognition service and extractProductDataFromPage                  *)
(* (src/services/geminiService.ts).  A message is modelled by the set of   *)
(* the marker substrings it contains: these are all the code looks at.     *)
(***************************************************************************)
RawMarkers == {"401", "API key", "429", "AUTH_ERROR"}

\* What ai.models.generateContent does: it answers with a text holding n
\* products (n = 0: an empty text, an unparsable text or an empty array),
\* or it throws; what is thrown is an Error or not, and its text holds
\* any of the markers.
Replies ==
  [kind : {"text"}, n : ProductCounts, isError : {TRUE}, msg : {{}}]
    \cup [kind : {"throw"}, n : {0}, isError : BOOLEAN, msg : SUBSET RawMarkers]

Products(n) == [kind |-> "products", n |-> n, message |-> {}]
Throw(m) == [kind |-> "throw", n |-> 0, message |-> m]

extractProductDataFromPage(hasKey, isJpeg, reply) ==
  IF ~hasKey THEN Throw({})                     \* 'API Key is required. ...'
  ELSE IF ~isJpeg THEN Throw({})                \* 'Invalid base64 image format. Expected JPEG.'
  ELSE IF reply.kind = "text" THEN Products(reply.n)
  ELSE IF reply.isError /\ ("401" \in reply.msg \/ "API key" \in reply.msg)
         THEN Throw({"AUTH_ERROR"})
  ELSE IF reply.isError /\ "429" \in reply.msg
         THEN Throw({"QUOTA_ERROR"})
  ELSE Throw(reply.msg)                         \* 'Failed to process page N. ' + text

\* One call of extractProductDataFromPage on its own: the apiKey argument
\* and process.env.API_KEY are empty or not, the image is a JPEG data URI
\* or not; reply is what generateContent did, outcome what the call gave.
NoService ==
  [pc |-> "idle", apiKey |-> FALSE, envKey |-> FALSE, isJpeg |-> FALSE,
   reply |-> [kind |-> "none", n |-> 0, isError |-> TRUE, msg |-> {}],
   outcome |-> [kind |-> "none", n |-> 0, message |-> {}]]

\* The call settles: the request is made when a key was found and the
\* image is a JPEG.
ServiceSettles ==
  /\ app = "service"
  /\ service.pc = "called"
  /\ LET hasKey == service.apiKey \/ service.envKey      \* apiKey || process.env.API_KEY
     IN IF hasKey /\ service.isJpeg
          THEN \E reply \in Replies :
                 service' = [service EXCEPT
                               !.pc = "settled", !.reply = reply,
                               !.outcome = extractProductDataFromPage(TRUE, TRUE, reply)]
          ELSE service' = [service EXCEPT
                             !.pc = "settled",
                             !.outcome = extractProductDataFromPage(hasKey, service.isJpeg,
                                                                    service.reply)]
  /\ UNCHANGED <<app, files, selectedPages, apiKeyConfig, page, box_2d, call, raster>>
  /\ UNCHANGED <<status, results, runs, processingState, extractedData, isCancelledRef,
                 task, progress, error>>

\* What a call of the batch loop can end with: the page image is a JPEG
\* data URI or not, and the service replies in any way.
ExtractOutcomes ==
  {extractProductDataFromPage(TRUE, isJpeg, reply) : isJpeg \in BOOLEAN, reply \in Replies}

\* A circuit breaker that would open on every page failure.
AbortsOnAnyError(message) == TRUE

\* pageError.message && pageError.message.includes('AUTH_ERROR')
isAuthError(message) == "AUTH_ERROR" \in message

(***************************************************************************)
(* The sequential batch loop (src/unnamed/part_000)                        *)
(***************************************************************************)
\* A product of the results list.  imagens[0] is the page's ImageInfo
\* object itself; base64 is what that object holds.
Product(f, p, k, b64) == [file |-> f, page |-> p, k |-> k, base64 |-> b64]

\* One invocation of handleStartProcessing: where it is (pc), its closure
\* (plan: the files to process with their selections) and its locals.
\* History kept for the properties: cause (what ended the run in the outer
\* catch), absorbed (the inner catch has swallowed a page failure), out
\* (the products the run has appended to the results).
NoRun ==
  [pc |-> "free", plan |-> <<>>, fi |-> 0, sortedPages |-> <<>>, pi |-> 0,
   processedCount |-> 0, total |-> 0, pdfDoc |-> "none",
   cause |-> {}, absorbed |-> FALSE, out |-> <<>>]

Runs == DOMAIN runs

\* The invocations of handleStartProcessing a behaviour can have in flight:
\* one, so a second start waits for the end of the run in progress.
Slots == {1}

Ended(r) == runs[r].pc \in {"free", "success", "error"}
Running(r) == ~Ended(r)

RECURSIVE SumSizes(_, _)
SumSizes(names, sel) ==
  IF names = {} THEN 0
  ELSE LET n == CHOOSE x \in names : TRUE
       IN Cardinality(sel[n]) + SumSizes(names \ {n}, sel)

totalSelectedPages == SumSizes(DOMAIN selectedPages, selectedPages)
isProcessing == status \in {"rendering", "processing"}
isStartDisabled == files = <<>> \/ totalSelectedPages = 0 \/ isProcessing

\* The lowest slot that holds no running invocation.
FreeSlot(r) == Ended(r) /\ \A q \in Runs : q < r => Running(q)

\* apiKeyConfig.mode === 'custom' ? apiKeyConfig.customKey : process.env.API_KEY || ''
apiKey == apiKeyConfig.hasKey

\* files.filter(file => pages && pages.size > 0)
filesToProcess == Filter(files, {f \in DOMAIN selectedPages : selectedPages[f] # {}})

handleStartProcessing(r) ==
  /\ app = "seq"
  /\ ~isStartDisabled
  /\ FreeSlot(r)
  /\ results' = <<>>
  /\ IF filesToProcess = <<>>
       THEN /\ error' = "pageSelectionError"
            /\ UNCHANGED <<status, progress, runs>>
     ELSE IF ~apiKey
       THEN /\ error' = "apiKeyMissingError"
            /\ UNCHANGED <<status, progress, runs>>
     ELSE /\ error' = "null"
          /\ status' = "processing"
          /\ LET total == SumSizes(Range(filesToProcess), selectedPages)
             IN /\ progress' = <<0, total>>
                /\ runs' = [runs EXCEPT ![r] =
                     [NoRun EXCEPT !.pc = "load",
                                   !.plan = [i \in 1..Len(filesToProcess) |->
                                              [name |-> filesToProcess[i],
                                               pages |-> selectedPages[filesToProcess[i]]]],
                                   !.fi = 1,
                                   !.total = total]]
  /\ UNCHANGED <<input, cancelVars>>

\* catch (err) of the outer try: setError(err.message); setStatus('error').
\* cause records what was thrown: the markers of a page failure's message,
\* or "loadPdfDocument".
Fatal(r, run, message, why) ==
  /\ error' = message
  /\ status' = "error"
  /\ runs' = [runs EXCEPT ![r] = [run EXCEPT !.pc = "error", !.cause = why]]
  /\ UNCHANGED progress

\* The rest of the iteration after a page is over: the next page of the
\* file, or pdfDoc.destroy() and the next file, or setStatus('success').
NextPage(r, run) ==
  IF run.pi < Len(run.sortedPages)
    THEN /\ runs' = [runs EXCEPT ![r] =
                [run EXCEPT !.pc = "render", !.pi = run.pi + 1,
                            !.processedCount = run.processedCount + 1]]
         /\ progress' = <<run.processedCount + 1, run.total>>
         /\ UNCHANGED <<status, error>>
  ELSE IF run.fi < Len(run.plan)
    THEN /\ runs' = [runs EXCEPT ![r] =
                [run EXCEPT !.pc = "load", !.fi = run.fi + 1, !.pi = 0,
                            !.sortedPages = <<>>,
                            !.pdfDoc = "none"]]
         /\ progress' = <<run.processedCount, run.total>>
         /\ UNCHANGED <<status, error>>
  ELSE /\ runs' = [runs EXCEPT ![r] =
              [run EXCEPT !.pc = "success", !.pdfDoc = "none"]]
       /\ status' = "success"
       /\ UNCHANGED <<progress, error>>

\* catch (pageError) of the inner try
handlePageError(r, run, message) ==
  IF isAuthError(message)
    THEN Fatal(r, run, "apiKeyMissingError", message \cup {"pageError"})
    ELSE NextPage(r, [run EXCEPT !.absorbed = TRUE])

\* A file loop that would give up the file alone and go on with the next.
SkipFailedFile(r, run) ==
  /\ UNCHANGED <<status, error, progress>>
  /\ runs' = [runs EXCEPT ![r] =
       IF run.fi < Len(run.plan)
         THEN [run EXCEPT !.fi = run.fi + 1]
         ELSE [run EXCEPT !.pc = "success"]]

\* The rejection of loadPdfDocument is caught by no try of the file loop:
\* it reaches the outer catch.
handleLoadError(r, run) == Fatal(r, run, "loadError", {"loadPdfDocument"})

\* await loadPdfDocument(file) settles
LoadDone(r) ==
  /\ app = "seq"
  /\ runs[r].pc = "load"
  /\ \E ok \in BOOLEAN, pages \in ArrayFrom(runs[r].plan[runs[r].fi].pages) :
       IF ok
         THEN LET run == runs[r]
                  sorted == SortPages(pages)
              IN /\ runs' = [runs EXCEPT ![r] =
                      [run EXCEPT !.pc = "render", !.pdfDoc = "loaded",
                                  !.sortedPages = sorted, !.pi = 1,
                                  !.processedCount = run.processedCount + 1]]
                 /\ progress' = <<run.processedCount + 1, run.total>>
                 /\ UNCHANGED <<status, error>>
         ELSE handleLoadError(r, runs[r])
  /\ UNCHANGED <<input, cancelVars, results>>

\* await renderSinglePage(pdfDoc, pageNum, file.name) settles; a page
\* rendered on an empty canvas yields "data:," instead of a JPEG data URI.
RenderDone(r) ==
  /\ app = "seq"
  /\ runs[r].pc = "render"
  /\ \E ok \in BOOLEAN :
       IF ok
         THEN /\ runs' = [runs EXCEPT ![r].pc = "extract"]
              /\ UNCHANGED <<status, error, progress>>
         ELSE handlePageError(r, runs[r], {})
  /\ UNCHANGED <<input, cancelVars, results>>

\* await extractProductDataFromPage(imageInfo, prompt, apiKey) settles
ExtractDone(r) ==
  /\ app = "seq"
  /\ runs[r].pc = "extract"
  /\ \E res \in ExtractOutcomes :
       LET run == runs[r]
           f == run.plan[run.fi].name
           p == run.sortedPages[run.pi]
           \* imagens: [imageInfo], and imageInfo.base64 = '' right after
           products == [k \in 1..res.n |-> Product(f, p, k, "")]
       IN IF res.kind = "products"
            THEN /\ results' = results \o products
                 /\ NextPage(r, [run EXCEPT !.out = run.out \o products])
            ELSE /\ results' = results
                 /\ handlePageError(r, run, res.message)
  /\ UNCHANGED <<input, cancelVars>>

handleClearResults ==
  /\ app = "seq"
  /\ results # <<>>            \* the button is rendered when data.length > 0
  /\ results' = <<>>
  /\ status' = "idle"
  /\ UNCHANGED <<input, cancelVars, progress, error, runs>>

handleReset ==
  /\ app = "seq"
  /\ error # "null"            \* the button is rendered with the error
  /\ status \notin {"idle", "success"}
  /\ files' = <<>>
  /\ selectedPages' = [f \in {} |-> {}]
  /\ results' = <<>>
  /\ status' = "idle"
  /\ progress' = <<>>
  /\ error' = "null"
  /\ UNCHANGED <<app, apiKeyConfig, cancelVars, runs, imageVars>>

(***************************************************************************)
(* The cancellable batch loop (src/App.tsx), with renderPdfPages           *)
(* (src/unnamed/part_008 or src/unnamed/part_007) and extractProductInfo   *)
(* (src/unnamed/part_004)                                                  *)
(***************************************************************************)
MAX_RETRIES == 5

\* What genAI.models.generateContent can throw, as far as the retry test
\* looks: error.toString().includes('429') || errorMessage.includes('quota')
RetryMarkers == {"429", "quota"}
isRateLimitError(msg) == "429" \in msg \/ "quota" \in msg

\* A retry test that would not look at the kind of the failure.
RetryAnyError(rateLimited, attempt) == attempt < MAX_RETRIES

\* if (isRateLimitError && attempt < MAX_RETRIES) { await delay } else { throw }
shouldRetry(rateLimited, attempt) == rateLimited /\ attempt < MAX_RETRIES

\* pdf.numPages
numPages(f) == MaxPage

Image(f, p) == [file |-> f, page |-> p]

NoTask ==
  [pc |-> "idle", plan |-> <<>>, fi |-> 0, page |-> 0, imageInfos |-> <<>>,
   allImages |-> <<>>, i |-> 0, attempt |-> 0, lastError |-> {}]

isApiKeyValid ==
  apiKeyConfig.mode = "default" \/ (apiKeyConfig.mode = "custom" /\ apiKeyConfig.hasKey)

canStart ==
  /\ files # <<>>
  /\ \E f \in DOMAIN selectedPages : selectedPages[f] # {}
  /\ processingState \in {"idle", "done", "error"}
  /\ isApiKeyValid

\* files.map(file => ({file, pages})).filter(item => item.pages.size > 0)
pagesToProcess ==
  LET names == Filter(files, {f \in DOMAIN selectedPages : selectedPages[f] # {}})
  IN [k \in 1..Len(names) |-> [name |-> names[k], pages |-> selectedPages[names[k]]]]

\* The page numbers j in from..numPages with pagesToRender.has(j)
PagesFrom(t, from) == {j \in from..numPages(t.plan[t.fi].name) : j \in t.plan[t.fi].pages}
Min(S) == CHOOSE x \in S : \A y \in S : x <= y

\* The extraction loop of handleStartProcessing from index i on (1-based):
\* the cancellation test, then the call of extractProductInfo, or the end.
ExtractFrom(t, i, cancelled) ==
  IF i <= Len(t.allImages) /\ ~cancelled
    THEN /\ task' = [t EXCEPT !.pc = "extract", !.i = i, !.attempt = 1]
         /\ UNCHANGED processingState
    ELSE /\ task' = [t EXCEPT !.pc = "ended", !.i = i, !.attempt = 0]
         /\ processingState' = IF cancelled THEN "idle" ELSE "done"

\* The rendering loop of handleStartProcessing from file fi on: the
\* cancellation test and the call of renderPdfPages, or what follows the
\* loop.
RenderFrom(t, fi, cancelled) ==
  IF fi <= Len(t.plan) /\ ~cancelled
    THEN /\ task' = [t EXCEPT !.pc = "load", !.fi = fi, !.page = 0, !.imageInfos = <<>>]
         /\ UNCHANGED <<processingState, progress>>
  ELSE IF cancelled
    THEN /\ task' = [t EXCEPT !.pc = "ended"]
         /\ processingState' = "idle"
         /\ UNCHANGED progress
  ELSE /\ progress' = <<0, Len(t.allImages)>>
       /\ ExtractFrom(t, 1, cancelled)

App_handleStartProcessing ==
  /\ app = "cancel"
  /\ processingState # "processing"      \* else the button shown is Cancel
  /\ canStart
  /\ IF ~isApiKeyValid
       THEN UNCHANGED <<cancelVars, progress, error>>
     ELSE /\ extractedData' = <<>>
          /\ error' = "null"
          /\ isCancelledRef' = FALSE
          /\ IF pagesToProcess = <<>>
               THEN /\ processingState' = "idle"
                    /\ UNCHANGED <<task, progress>>
               ELSE /\ processingState' = "processing"
                    /\ task' = [NoTask EXCEPT !.pc = "load", !.plan = pagesToProcess,
                                              !.fi = 1]
                    /\ UNCHANGED progress
  /\ UNCHANGED <<input, seqVars>>

\* catch (err) of the rendering loop
RenderingFailed(t) ==
  /\ error' = "processLogErrorRendering"
  /\ processingState' = "error"
  /\ task' = [t EXCEPT !.pc = "ended"]
  /\ UNCHANGED progress

\* renderPdfPages from page number from on: the next selected page is
\* rendered, or the images are returned to handleStartProcessing.
RenderPagesFrom(t, from) ==
  IF PagesFrom(t, from) # {}
    THEN /\ task' = [t EXCEPT !.pc = "renderPage", !.page = Min(PagesFrom(t, from))]
         /\ UNCHANGED <<processingState, progress, error>>
    ELSE /\ RenderFrom([t EXCEPT !.allImages = t.allImages \o t.imageInfos,
                                 !.imageInfos = <<>>, !.page = 0],
                       t.fi + 1, isCancelledRef)
         /\ UNCHANGED error

\* renderPdfPages: the document is loaded (or the load fails)
RenderLoadDone ==
  /\ app = "cancel"
  /\ task.pc = "load"
  /\ \E ok \in BOOLEAN :
       IF ok THEN RenderPagesFrom(task, 1) ELSE RenderingFailed(task)
  /\ UNCHANGED <<input, seqVars, extractedData, isCancelledRef>>

\* renderPdfPages: one page is rendered, or its rendering fails.  The
\* repository holds two renderPdfPages: the one of part_008 catches the
\* failure of a page and goes on, the one of part_007 (one try around the
\* loop) rejects, which handleStartProcessing catches.
RenderPageDone ==
  /\ app = "cancel"
  /\ task.pc = "renderPage"
  /\ \E o \in {"rendered", "skipped", "rejected"} :
       CASE o = "rendered" ->
              RenderPagesFrom(
                [task EXCEPT !.imageInfos =
                   Append(task.imageInfos, Image(task.plan[task.fi].name, task.page))],
                task.page + 1)
         [] o = "skipped" -> RenderPagesFrom(task, task.page + 1)
         [] o = "rejected" -> RenderingFailed(task)
  /\ UNCHANGED <<input, seqVars, extractedData, isCancelledRef>>

\* What one call of generateContent inside extractProductInfo ends with:
\* a text with n products, or a failure whose text holds any of the
\* markers; getAiClient throws before the first call when no key is found.
CallOutcomes ==
  [kind : {"text"}, n : ProductCounts, msg : {{}}]
    \cup [kind : {"throw"}, n : {0}, msg : SUBSET RetryMarkers]

\* catch (err) / the end of the body of the extraction loop
PageOver(t) ==
  /\ progress' = <<t.i, progress[2]>>
  /\ ExtractFrom(t, t.i + 1, isCancelledRef)

\* await genAI.models.generateContent(request) settles
ExtractReply ==
  /\ app = "cancel"
  /\ task.pc = "extract"
  /\ \E o \in CallOutcomes :
       LET img == task.allImages[task.i]
           products == [k \in 1..o.n |-> Product(img.file, img.page, k, "jpeg")]
       IN IF ~apiKeyConfig.hasKey
            THEN /\ PageOver(task)
                 /\ UNCHANGED extractedData
          ELSE IF o.kind = "text"
            THEN /\ extractedData' = extractedData \o products
                 /\ PageOver(task)
          ELSE IF shouldRetry(isRateLimitError(o.msg), task.attempt)
            THEN /\ task' = [task EXCEPT !.pc = "delay", !.lastError = o.msg]
                 /\ UNCHANGED <<extractedData, processingState, progress>>
          ELSE /\ PageOver(task)
               /\ UNCHANGED extractedData
  /\ UNCHANGED <<input, seqVars, isCancelledRef, error>>

\* A retry that would not count its attempts.
DelayDoneWithoutCount ==
  /\ app = "cancel"
  /\ task.pc = "delay"
  /\ task' = [task EXCEPT !.pc = "extract", !.lastError = {}]
  /\ UNCHANGED <<processingState, progress>>
  /\ UNCHANGED <<input, seqVars, extractedData, isCancelledRef, error>>

\* await delay(delayDuration) settles: the next attempt
DelayDone ==
  /\ app = "cancel"
  /\ task.pc = "delay"
  /\ IF task.attempt + 1 <= MAX_RETRIES
       THEN /\ task' = [task EXCEPT !.pc = "extract", !.attempt = task.attempt + 1,
                                    !.lastError = {}]
            /\ UNCHANGED <<processingState, progress>>
       ELSE PageOver([task EXCEPT !.lastError = {}])   \* '... after multiple attempts.'
  /\ UNCHANGED <<input, seqVars, extractedData, isCancelledRef, error>>

handleCancelProcessing ==
  /\ app = "cancel"
  /\ processingState = "processing"     \* the Cancel button is shown
  /\ isCancelledRef' = TRUE
  /\ processingState' = "cancelling"
  /\ UNCHANGED <<input, seqVars, extractedData, task, progress, error>>

(***************************************************************************)
(* The region image engine (src/unnamed/part_008): extractBestImageForBox  *)
(* and renderHighQualityCrop.  Numbers the code computes as doubles are    *)
(* modelled as exact fractions <<numerator, denominator>>, denominator > 0.*)
(***************************************************************************)
RECURSIVE GCD(_, _)
GCD(a, b) == IF b = 0 THEN a ELSE GCD(b, a % b)
Abs(x) == IF x < 0 THEN -x ELSE x

\* The fraction n/d (d > 0) in lowest terms.
Frac(n, d) == LET g == GCD(Abs(n), d) IN <<n \div g, d \div g>>
Less(x, y) == x[1] * y[2] < y[1] * x[2]
Mul(x, y) == Frac(x[1] * y[1], x[2] * y[2])
Floor(x) == x[1] \div x[2]

\* The image objects of the model: width, height, kind and data.length
\* (-1: the object holds no data).
ImgObj(w, h, k, len) == [width |-> w, height |-> h, kind |-> k, dataLength |-> len]
ImgObjs ==
  { ImgObj(200, 200, 2, 200 * 200 * 3),        \* RGB, square
    ImgObj(280, 200, 3, 280 * 200 * 4),        \* RGBA, aspect 1.4
    ImgObj(1400, 1000, 4, 1400 * 1000 * 4),    \* CMYK, aspect 1.4, over a megapixel
    ImgObj(300, 200, 2, 300 * 200 * 3),        \* RGB, aspect 1.5
    ImgObj(400, 200, 2, 400 * 200 * 3),        \* RGB, aspect 2
    ImgObj(100, 100, 2, 100 * 100 * 3),        \* RGB, square, 100 wide and high
    ImgObj(200, 200, 1, 25 * 200),             \* 1 bit per pixel grayscale
    ImgObj(1400, 1000, 2, -1) }                \* no data, aspect 1.4

ImgNames == {"img1", "img2"}

\* The operators of a page: fnArray[i] with argsArray[i].
PageOps ==
  {[fn |-> "paintImageXObject", args |-> <<n>>] : n \in ImgNames}
    \cup {[fn |-> "showText", args |-> <<"glyphs">>],
          [fn |-> "constructPath", args |-> <<"path">>]}

RECURSIVE SeqsUpTo(_, _)
SeqsUpTo(S, n) ==
  IF n = 0 THEN {<<>>}
  ELSE LET shorter == SeqsUpTo(S, n - 1)
       IN shorter \cup {Append(t, x) : t \in {u \in shorter : Len(u) = n - 1}, x \in S}

\* objs / commonObjs: the names they hold, with the object of each.
ObjTables == UNION {[D -> ImgObjs] : D \in SUBSET ImgNames}

\* <<commonObjs, objs>>
ObjTablePairs ==
  {t \in ObjTables \X ObjTables :
     Cardinality(DOMAIN t[1]) + Cardinality(DOMAIN t[2]) <= MaxObjs}

\* The width and height of page.getViewport({scale: 1.0})
PageViews == {<<600, 800>>}

\* The names the operators of ops paint.
Painted(ops) == {ops[i].args[1] : i \in {j \in 1..Len(ops) : ops[j].fn = "paintImageXObject"}}

\* The pages of the model: the objects a page holds are among those its
\* operators paint.
PdfPages ==
  {[fnArray |-> [i \in 1..Len(d[1]) |-> d[1][i].fn],
    argsArray |-> [i \in 1..Len(d[1]) |-> d[1][i].args],
    displayArgsArray |-> [i \in 1..Len(d[1]) |-> d[1][i].args],
    commonObjs |-> d[2][1], objs |-> d[2][2], view |-> d[3]] :
      d \in {e \in SeqsUpTo(PageOps, MaxOps) \X ObjTablePairs \X PageViews :
               (DOMAIN e[2][1]) \cup (DOMAIN e[2][2]) \subseteq Painted(e[1])}}

\* [ymin, xmin, ymax, xmax] on the 0..1000 scale: a square, one of aspect
\* 1.4, one of no height, one of no area, one with both corners swapped,
\* one off the page to the right.
Boxes ==
  { <<0, 0, 500, 500>>, <<0, 0, 500, 700>>, <<100, 0, 100, 500>>,
    <<0, 0, 0, 0>>, <<500, 500, 0, 0>>, <<0, 1100, 500, 1300>> }

Null == [kind |-> "null", width |-> 0, height |-> 0]
Png(w, h) == [kind |-> "png", width |-> w, height |-> h]

\* commonObjs.has(imgName) ? commonObjs.get(imgName)
\*   : objs.has(imgName) ? objs.get(imgName) : null
HasImgObj(pg, name) == name \in DOMAIN pg.commonObjs \/ name \in DOMAIN pg.objs
LookupImgObj(pg, name) ==
  IF name \in DOMAIN pg.commonObjs THEN pg.commonObjs[name] ELSE pg.objs[name]

\* imgObj && imgObj.width > 100 && imgObj.height > 100
PassesSize(img) == img.width > 100 /\ img.height > 100

\* boxAspect = boxWidth / boxHeight is a number, or infinite (a division
\* of a non-zero width by 0) or NaN (0 / 0).
BoxAspectKind(box) ==
  IF box[3] - box[1] # 0 THEN "number"
  ELSE IF box[4] - box[2] # 0 THEN "infinite" ELSE "NaN"

\* Math.abs(imgObj.width / imgObj.height - boxWidth / boxHeight), for a
\* box whose height is not 0.
AspectDiff(img, box) ==
  LET boxWidth == box[4] - box[2]
      boxHeight == box[3] - box[1]
  IN Frac(Abs(img.width * boxHeight - boxWidth * img.height),
          img.height * Abs(boxHeight))

\* A filter that would let a difference of up to 2 pass.
LooseAspectFilter(img, box) ==
  CASE BoxAspectKind(box) = "infinite" -> TRUE
    [] BoxAspectKind(box) = "NaN" -> FALSE
    [] OTHER -> Less(<<2, 1>>, AspectDiff(img, box))

\* if (aspectDiff > 0.5) continue: an infinite difference is greater, a
\* NaN one is not.
AspectRejected(img, box) ==
  CASE BoxAspectKind(box) = "infinite" -> TRUE
    [] BoxAspectKind(box) = "NaN" -> FALSE
    [] OTHER -> Less(<<1, 2>>, AspectDiff(img, box))

\* score = (1 - aspectDiff) * 100, + 50 when width * height > 1000000
Score(img, box) ==
  LET d == AspectDiff(img, box)
      boost == IF img.width * img.height > 1000000 THEN 50 ELSE 0
  IN Frac(100 * (d[2] - d[1]) + boost * d[2], d[2])

\* The conversion of the object's data into the canvas: a PNG, or the
\* object is skipped (unsupported format), or an exception is thrown
\* (no data to read; more converted CMYK data than the ImageData holds).
Convert(img) ==
  IF img.dataLength < 0 THEN "throw"
  ELSE IF img.kind = 4
    THEN IF img.dataLength > img.width * img.height * 4 THEN "throw" ELSE "png"
  ELSE IF img.dataLength = img.width * img.height * 3 THEN "png"
  ELSE IF img.dataLength = img.width * img.height * 4 THEN "png"
  ELSE "skip"

(***************************************************************************)
(* The same conversion byte by byte: imgObj.data into imgData.data.        *)
(***************************************************************************)
MaxPixels == 2

Bytes == 0..255
ByteSamples == {0, 255}

Sub(x, y) == Frac(x[1] * y[2] - y[1] * x[2], x[2] * y[2])

\* Math.round(x), x >= 0
Round(x) == Floor(Frac(2 * x[1] + x[2], 2 * x[2]))

\* A conversion that would cut the fraction off.
TruncatedChannel(x, k) ==
  Floor(Mul(Mul(<<255, 1>>, Sub(<<1, 1>>, Frac(x, 255))), Sub(<<1, 1>>, Frac(k, 255))))

\* c = cmykData[i] / 255; k = cmykData[i + 3] / 255;
\* r = 255 * (1 - c) * (1 - k); Math.round(r)          (the same for m and y)
CMYKChannel(x, k) ==
  LET c == Frac(x, 255)
      kk == Frac(k, 255)
      r == Mul(Mul(<<255, 1>>, Sub(<<1, 1>>, c)), Sub(<<1, 1>>, kk))
  IN Round(r)

\* The RGBA bytes of the CMYK bytes.  pixelCount * 4 is cmykData.length,
\* whole or not; a byte read past the end is undefined, the channel NaN,
\* and the byte stored 0.
convertCMYKtoRGB(cmykData) ==
  [j \in 1..Len(cmykData) |->
     LET i == ((j - 1) \div 4) * 4
         channel == (j - 1) % 4
     IN IF channel = 3 THEN 255
        ELSE IF i + 4 > Len(cmykData) THEN 0
        ELSE CMYKChannel(cmykData[i + channel + 1], cmykData[i + 4])]

\* target.set(source), source no longer than target
SetInto(target, source) ==
  [i \in 1..Len(target) |-> IF i <= Len(source) THEN source[i] ELSE target[i]]

\* "Handle Data Types": the path taken for imgObj and imgData.data after it;
\* imgData = ctx.createImageData(width, height) starts as zeros.
HandleDataTypes(imgObj) ==
  LET pixels == imgObj.width * imgObj.height
      blank == [i \in 1..(pixels * 4) |-> 0]
      data == imgObj.data
  IN IF imgObj.kind = 4
       THEN LET rgbData == convertCMYKtoRGB(data)
            IN IF Len(rgbData) > pixels * 4
                 THEN [path |-> "throw", data |-> <<>>]     \* RangeError of set
                 ELSE [path |-> "CMYK", data |-> SetInto(blank, rgbData)]
     ELSE IF Len(data) = pixels * 3
       THEN [path |-> "RGB",
             data |-> [d \in 1..(pixels * 4) |->
                         IF (d - 1) % 4 = 3 THEN 255
                         ELSE data[((d - 1) \div 4) * 3 + ((d - 1) % 4) + 1]]]
     ELSE IF Len(data) = pixels * 4
       THEN [path |-> "RGBA", data |-> SetInto(blank, data)]
     ELSE [path |-> "skip", data |-> <<>>]

RasterObj(w, h, k, data) == [width |-> w, height |-> h, kind |-> k, data |-> data]

NoRaster ==
  [pc |-> "none", imgObj |-> RasterObj(0, 0, 0, <<>>), path |-> "none", imgData |-> <<>>]

\* The data of the candidate is put into the ImageData.
PaintCandidate ==
  /\ app = "raster"
  /\ raster.pc = "candidate"
  /\ LET converted == HandleDataTypes(raster.imgObj)
     IN raster' = [raster EXCEPT !.pc = "converted", !.path = converted.path,
                                 !.imgData = converted.data]
  /\ UNCHANGED <<app, files, selectedPages, apiKeyConfig, service, page, box_2d, call>>
  /\ UNCHANGED <<status, results, runs, processingState, extractedData, isCancelledRef,
                 task, progress, error>>

NoBest == [bestScore |-> <<-1, 1>>, bestImage |-> Null, threw |-> FALSE]

\* The loop over opList.fnArray from index i on (1-based), with the values
\* of bestScore and bestImage so far; threw: an exception left the loop.
RECURSIVE ScanOps(_, _, _, _)
ScanOps(pg, box, i, acc) ==
  IF i > Len(pg.fnArray) THEN acc
  ELSE IF pg.fnArray[i] # "paintImageXObject" THEN ScanOps(pg, box, i + 1, acc)
  \* imgName is undefined when the operator has no operand
  ELSE IF pg.argsArray[i] = <<>> THEN ScanOps(pg, box, i + 1, acc)
  ELSE IF ~HasImgObj(pg, pg.argsArray[i][1]) THEN ScanOps(pg, box, i + 1, acc)
  ELSE LET img == LookupImgObj(pg, pg.argsArray[i][1])
       IN IF ~PassesSize(img) THEN ScanOps(pg, box, i + 1, acc)
          ELSE IF AspectRejected(img, box) THEN ScanOps(pg, box, i + 1, acc)
          \* a NaN score is greater than nothing
          ELSE IF BoxAspectKind(box) = "NaN" THEN ScanOps(pg, box, i + 1, acc)
          ELSE IF ~Less(acc.bestScore, Score(img, box))
            THEN ScanOps(pg, box, i + 1, acc)
          ELSE LET scored == [acc EXCEPT !.bestScore = Score(img, box)]
               IN CASE Convert(img) = "throw" -> [scored EXCEPT !.threw = TRUE]
                    [] Convert(img) = "skip" -> ScanOps(pg, box, i + 1, scored)
                    [] OTHER ->
                         ScanOps(pg, box, i + 1,
                                 [scored EXCEPT !.bestImage = Png(img.width, img.height)])

CONFIDENCE == 70

\* An extractor without the test of the best score against the threshold.
NativeWithoutThreshold(pg, box) ==
  LET scan == ScanOps(pg, box, 1, NoBest)
  IN IF scan.threw THEN Null ELSE scan.bestImage

\* An extractor whose catch returns what the loop held when the exception
\* came.
NativeReturningBestOnThrow(pg, box) ==
  LET scan == ScanOps(pg, box, 1, NoBest)
  IN IF Less(scan.bestScore, <<CONFIDENCE, 1>>) THEN Null ELSE scan.bestImage

\* extractBestImageForBox(pdf, pageNumber, box_2d): the image, or null
extractBestImageForBox(pg, box) ==
  LET scan == ScanOps(pg, box, 1, NoBest)
  IN IF scan.threw THEN Null                                  \* catch (e)
     ELSE IF Less(scan.bestScore, <<CONFIDENCE, 1>>) THEN Null   \* bestScore < 70
     ELSE scan.bestImage

Clamp1000(v) == IF v < 0 THEN 0 ELSE IF v > 1000 THEN 1000 ELSE v

\* A set that would hold the text-showing operators alone.
textOpsShowOnly ==
  {"showText", "showSpacedText", "nextLineShowText", "nextLineSetSpacingShowText"}

\* new Set([OPS.showText, ..., OPS.setWordSpacing])
textOps ==
  {"showText", "showSpacedText", "nextLineShowText", "nextLineSetSpacingShowText",
   "beginText", "endText", "setCharSpacing", "setWordSpacing"}

MAX_CANVAS_DIM == 4096
CROP_SCALE == 4

\* A suppression that would empty the operands of every operator.
SuppressEveryOperand(pg) ==
  [pg EXCEPT !.argsArray = [i \in 1..Len(pg.argsArray) |-> <<>>]]

\* for (i ...) if (textOps.has(opList.fnArray[i])) opList.argsArray[i] = []
SuppressText(pg) ==
  [pg EXCEPT !.argsArray =
     [i \in 1..Len(pg.argsArray) |->
        IF pg.fnArray[i] \in textOps THEN <<>> ELSE pg.argsArray[i]]]

\* A renderer without the cap.
NoCap(crop, finalScale) == finalScale

\* if ((crop * finalScale) > MAX_CANVAS_DIM) finalScale = MAX_CANVAS_DIM / crop
\* for crop the width, then the height, of the crop; the value is the new
\* finalScale.
CapScale(crop, finalScale) ==
  IF Less(<<MAX_CANVAS_DIM, 1>>, Mul(crop, finalScale))
    THEN Frac(MAX_CANVAS_DIM * crop[2], crop[1])
    ELSE finalScale

\* A test that would look at the width alone.
EmptyCropWidthOnly(cropWidth, cropHeight) == cropWidth[1] <= 0

\* if (cropWidth <= 0 || cropHeight <= 0) return null
EmptyCrop(cropWidth, cropHeight) == cropWidth[1] <= 0 \/ cropHeight[1] <= 0

\* The operands page.render replays.  The call hands render no operator
\* list: the library replays the list it keeps for the page's display,
\* which is the object getOperatorList returned (shared) or one of its own.
RenderedArgs(pg, shared) ==
  IF shared THEN SuppressText(pg).argsArray ELSE pg.displayArgsArray

\* renderHighQualityCrop(pdf, pageNumber, box_2d, scale), scale a fraction;
\* renders: page.render succeeds (else the catch returns null).  The value
\* is the image returned, the page as the call leaves it, the calls made
\* on the page and the document in their order (did), and the operators
\* with the operands that page.render replayed (none: no render).
renderHighQualityCrop(pg, box, scale, renders, shared) ==
  LET ymin == Clamp1000(box[1])
      xmin == Clamp1000(box[2])
      ymax == Clamp1000(box[3])
      xmax == Clamp1000(box[4])
      cropWidth == Frac((xmax - xmin) * pg.view[1], 1000)
      cropHeight == Frac((ymax - ymin) * pg.view[2], 1000)
      finalScale == CapScale(cropHeight, CapScale(cropWidth, scale))
      after == [SuppressText(pg) EXCEPT !.displayArgsArray = RenderedArgs(pg, shared)]
      replayed == [i \in 1..Len(pg.fnArray) |->
                     [fn |-> pg.fnArray[i], args |-> RenderedArgs(pg, shared)[i]]]
  IN IF EmptyCrop(cropWidth, cropHeight)
       THEN [image |-> Null, page |-> pg, did |-> <<"getPage", "getViewport">>,
             replayed |-> <<>>]
     ELSE IF ~renders
       THEN [image |-> Null, page |-> after,
             did |-> <<"getPage", "getViewport", "createElement", "getViewport",
                       "getOperatorList", "render">>,
             replayed |-> replayed]
     ELSE [image |-> Png(Floor(Mul(cropWidth, finalScale)),
                         Floor(Mul(cropHeight, finalScale))),
           page |-> after,
           did |-> <<"getPage", "getViewport", "createElement", "getViewport",
                     "getOperatorList", "render", "toDataURL">>,
           replayed |-> replayed]

(***************************************************************************)
(* extractRegionImage: the native extractor first, the crop renderer as    *)
(* the fallback.                                                           *)
(***************************************************************************)
NoOpList == [fnArray |-> <<>>, argsArray |-> <<>>]

NoCall ==
  [pc |-> "idle", log |-> <<>>, native |-> Null, scale |-> <<0, 1>>, result |-> Null,
   did |-> <<>>, replayed |-> <<>>, before |-> NoOpList, natives |-> {}]

\* The fallback is taken when the native extractor gave no image.
fallsBack(native) == native = Null

extractRegionImage ==
  /\ app = "image"
  /\ call.pc = "idle"
  /\ call' = [call EXCEPT !.pc = "native", !.log = <<"extractBestImageForBox">>]
  /\ UNCHANGED <<app, files, selectedPages, apiKeyConfig, service, raster, page, box_2d>>
  /\ UNCHANGED <<seqVars, cancelVars, progress, error>>

\* await extractBestImageForBox(pdf, pageNumber, box_2d) settles
NativeDone ==
  /\ app = "image"
  /\ call.pc = "native"
  /\ LET native == extractBestImageForBox(page, box_2d)
     IN call' = IF fallsBack(native)
                  THEN [call EXCEPT !.pc = "crop", !.native = native,
                                    !.log = Append(call.log, "renderHighQualityCrop"),
                                    !.scale = <<CROP_SCALE, 1>>]
                  ELSE [call EXCEPT !.pc = "done", !.native = native, !.result = native]
  /\ UNCHANGED <<app, files, selectedPages, apiKeyConfig, service, raster, page, box_2d>>
  /\ UNCHANGED <<seqVars, cancelVars, progress, error>>

\* renderHighQualityCrop(pdf, pageNumber, box_2d, scale) settles: the call
\* record keeps what it returned and did, and the operator list as it was
\* when the call began (before).
CropSettles(pc) ==
  \E renders, shared \in BOOLEAN :
    LET crop == renderHighQualityCrop(page, box_2d, call.scale, renders, shared)
    IN /\ call' = [call EXCEPT !.pc = pc, !.result = crop.image,
                               !.did = crop.did, !.replayed = crop.replayed,
                               !.before = [fnArray |-> page.fnArray, argsArray |-> page.argsArray]]
       /\ page' = crop.page

\* await renderHighQualityCrop(pdf, pageNumber, box_2d) settles
CropDone ==
  /\ app = "image"
  /\ call.pc = "crop"
  /\ CropSettles("done")
  /\ UNCHANGED <<app, files, selectedPages, apiKeyConfig, service, raster, box_2d>>
  /\ UNCHANGED <<seqVars, cancelVars, progress, error>>

NoPage ==
  [fnArray |-> <<>>, argsArray |-> <<>>, displayArgsArray |-> <<>>,
   commonObjs |-> <<>>, objs |-> <<>>,
   view |-> <<600, 800>>]

InitImage ==
  /\ app = "image"
  /\ page \in PdfPages
  /\ box_2d \in Boxes
  /\ call = NoCall
  /\ raster = NoRaster
  /\ service = NoService
  /\ files = <<>>
  /\ selectedPages = [f \in {} |-> {}]
  /\ apiKeyConfig = [mode |-> "default", hasKey |-> FALSE]
  /\ status = "idle"
  /\ results = <<>>
  /\ progress = <<>>
  /\ error = "null"
  /\ runs = [r \in Slots |-> NoRun]
  /\ processingState = "idle"
  /\ extractedData = <<>>
  /\ isCancelledRef = FALSE
  /\ task = NoTask

NextImage == extractRegionImage \/ NativeDone \/ CropDone

SpecImage == InitImage /\ [][NextImage]_vars

(***************************************************************************)
(* The two exported functions called one after the other on one page, in   *)
(* any order: call.log holds the calls made so far.                        *)
(***************************************************************************)
MaxCalls == 3

\* The scale argument of renderHighQualityCrop: the least and the default
\* of the callers, and twice the default.
Scales == {<<1, 1>>, <<CROP_SCALE, 1>>, <<2 * CROP_SCALE, 1>>}

\* Page sizes: a small page, a wide one and a tall one.
ApiViews == {<<600, 800>>, <<2000, 1500>>, <<600, 3000>>}

\* A square box, the whole page, a box of no area.
ApiBoxes == {<<0, 0, 500, 500>>, <<0, 0, 1000, 1000>>, <<0, 0, 0, 0>>}

ApiOps ==
  {[fn |-> "paintImageXObject", args |-> <<"img1">>],
   [fn |-> "showText", args |-> <<"glyphs">>],
   [fn |-> "setWordSpacing", args |-> <<"spacing">>],
   [fn |-> "constructPath", args |-> <<"path">>]}

\* objs: nothing, or img1 as an RGB or a CMYK image.
ApiObjTables ==
  UNION {[D -> {ImgObj(200, 200, 2, 200 * 200 * 3), ImgObj(1400, 1000, 4, 1400 * 1000 * 4)}] :
           D \in SUBSET {"img1"}}

\* The pages called on: the small page with the images its operators
\* paint, and the larger sizes without image objects.
ApiPages ==
  {[fnArray |-> [i \in 1..Len(d[1]) |-> d[1][i].fn],
    argsArray |-> [i \in 1..Len(d[1]) |-> d[1][i].args],
    displayArgsArray |-> [i \in 1..Len(d[1]) |-> d[1][i].args],
    commonObjs |-> <<>>, objs |-> d[2], view |-> d[3]] :
      d \in {e \in SeqsUpTo(ApiOps, MaxOps) \X ApiObjTables \X ApiViews :
               /\ DOMAIN e[2] \subseteq Painted(e[1])
               /\ e[3] \in PageViews \/ e[2] = <<>>}}

\* extractBestImageForBox(pdf, pageNumber, box_2d) is called
callExtractBestImageForBox ==
  /\ app = "api"
  /\ call.pc = "idle"
  /\ Len(call.log) < MaxCalls
  /\ call' = [call EXCEPT !.pc = "native",
                          !.log = Append(call.log, "extractBestImageForBox")]
  /\ UNCHANGED <<app, files, selectedPages, apiKeyConfig, service, raster, page, box_2d>>
  /\ UNCHANGED <<seqVars, cancelVars, progress, error>>

\* it settles: call.natives holds every value it has returned so far
ExtractBestDone ==
  /\ app = "api"
  /\ call.pc = "native"
  /\ LET native == extractBestImageForBox(page, box_2d)
     IN call' = [call EXCEPT !.pc = "idle", !.native = native, !.result = native,
                             !.natives = call.natives \cup {native}]
  /\ UNCHANGED <<app, files, selectedPages, apiKeyConfig, service, raster, page, box_2d>>
  /\ UNCHANGED <<seqVars, cancelVars, progress, error>>

\* renderHighQualityCrop(pdf, pageNumber, box_2d, scale) is called
callRenderHighQualityCrop ==
  /\ app = "api"
  /\ call.pc = "idle"
  /\ Len(call.log) < MaxCalls
  /\ \E scale \in Scales :
       call' = [call EXCEPT !.pc = "crop", !.scale = scale,
                            !.log = Append(call.log, "renderHighQualityCrop")]
  /\ UNCHANGED <<app, files, selectedPages, apiKeyConfig, service, raster, page, box_2d>>
  /\ UNCHANGED <<seqVars, cancelVars, progress, error>>

\* it settles
RenderCropDone ==
  /\ app = "api"
  /\ call.pc = "crop"
  /\ CropSettles("idle")
  /\ UNCHANGED <<app, files, selectedPages, apiKeyConfig, service, raster, box_2d>>
  /\ UNCHANGED <<seqVars, cancelVars, progress, error>>

InitApi ==
  /\ app = "api"
  /\ page \in ApiPages
  /\ box_2d \in ApiBoxes
  /\ call = NoCall
  /\ raster = NoRaster
  /\ service = NoService
  /\ files = <<>>
  /\ selectedPages = [f \in {} |-> {}]
  /\ apiKeyConfig = [mode |-> "default", hasKey |-> FALSE]
  /\ status = "idle"
  /\ results = <<>>
  /\ progress = <<>>
  /\ error = "null"
  /\ runs = [r \in Slots |-> NoRun]
  /\ processingState = "idle"
  /\ extractedData = <<>>
  /\ isCancelledRef = FALSE
  /\ task = NoTask

NextApi ==
  \/ callExtractBestImageForBox
  \/ ExtractBestDone
  \/ callRenderHighQualityCrop
  \/ RenderCropDone

SpecApi == InitApi /\ [][NextApi]_vars

(***************************************************************************)
(* The scoring of extractBestImageForBox in the arithmetic the code runs   *)
(* in: a JavaScript number is an IEEE 754 binary64, and every division,    *)
(* subtraction, multiplication and addition rounds its exact result to the *)
(* nearest number of 53 significant bits, ties to the even one.  A number  *)
(* is [neg, m, x] of value m * 2^x, m a natural number of exactly 53 bits  *)
(* (or 0), written as its digits in base LimbBase, the lowest first.  The  *)
(* values of the scoring are far from the ends of the exponent range.      *)
(***************************************************************************)
Precision == 53
LimbBits == 12
LimbBase == 4096

\* Op applied to the values of its arguments, each computed once.
Once(v, Op(_)) == CHOOSE r \in {Op(x) : x \in {v}} : TRUE
Once2(v, w, Op(_, _)) == CHOOSE r \in {Op(x, y) : x \in {v}, y \in {w}} : TRUE

RECURSIVE Pow2(_)
Pow2(n) == IF n = 0 THEN 1 ELSE 2 * Pow2(n - 1)

Limb(a, i) == IF i <= Len(a) THEN a[i] ELSE 0

\* a without its leading zero digits
NatTrim(a) ==
  Once(a, LAMBDA d : SubSeq(d, 1, Cardinality({i \in 1..Len(d) :
                                                  \E j \in i..Len(d) : d[j] # 0})))

\* the digits of the integer n >= 0
RECURSIVE NatOfValue(_)
NatOfValue(n) == IF n = 0 THEN <<>> ELSE <<n % LimbBase>> \o NatOfValue(n \div LimbBase)

NatOf(n) == Once(n, NatOfValue)

\* a + b + c from digit i on
RECURSIVE NatAddFrom(_, _, _, _)
NatAddFrom(a, b, i, c) ==
  IF i > Len(a) /\ i > Len(b) THEN NatOf(c)
  ELSE Once(Limb(a, i) + Limb(b, i) + c,
            LAMBDA v : <<v % LimbBase>> \o NatAddFrom(a, b, i + 1, v \div LimbBase))

NatAdd(a, b) == Once2(a, b, LAMBDA d, e : NatAddFrom(d, e, 1, 0))

\* a - b - c from digit i on, for a >= b
RECURSIVE NatSubFrom(_, _, _, _)
NatSubFrom(a, b, i, c) ==
  IF i > Len(a) THEN <<>>
  ELSE Once(Limb(a, i) - Limb(b, i) - c,
            LAMBDA v : <<v % LimbBase>>
                         \o NatSubFrom(a, b, i + 1, IF v < 0 THEN 1 ELSE 0))

NatSub(a, b) == NatTrim(Once2(a, b, LAMBDA d, e : NatSubFrom(d, e, 1, 0)))

\* a * k + c from digit i on, for an integer k of at most 19 bits
RECURSIVE NatTimesFrom(_, _, _, _)
NatTimesFrom(a, k, i, c) ==
  IF i > Len(a) THEN NatOf(c)
  ELSE Once(a[i] * k + c,
            LAMBDA v : <<v % LimbBase>> \o NatTimesFrom(a, k, i + 1, v \div LimbBase))

NatTimes(a, k) == NatTrim(Once2(a, k, LAMBDA d, n : NatTimesFrom(d, n, 1, 0)))

\* a < b
NatLess(a, b) ==
  Once2(a, b, LAMBDA d, e :
    IF Len(d) # Len(e) THEN Len(d) < Len(e)
    ELSE \E i \in 1..Len(d) : d[i] < e[i] /\ \A j \in (i + 1)..Len(d) : d[j] = e[j])

\* The remainder, then the quotient digits, of (r * LimbBase^i + the digits
\* i down to 1 of a) by q, for an integer q of at most 19 bits.
RECURSIVE NatDivFrom(_, _, _, _)
NatDivFrom(a, q, i, r) ==
  IF i = 0 THEN <<r>>
  ELSE Once(r * LimbBase + a[i],
            LAMBDA v : NatDivFrom(a, q, i - 1, v % q) \o <<v \div q>>)

NatDiv(a, q) ==
  Once2(a, q, LAMBDA d, n :
    Once(NatDivFrom(d, n, Len(d), 0),
         LAMBDA r : [quot |-> NatTrim(Tail(r)), rem |-> Head(r)]))

\* a * 2^s, and a \div 2^s with whether a bit was dropped
NatShiftLeft(a, s) ==
  Once2(a, s, LAMBDA d, n :
    IF d = <<>> THEN d
    ELSE [i \in 1..(n \div LimbBits) |-> 0] \o NatTimes(d, Pow2(n % LimbBits)))

NatShiftRight(a, s) ==
  Once2(a, s, LAMBDA d, n :
    Once2(SubSeq(d, 1, IF n \div LimbBits < Len(d) THEN n \div LimbBits ELSE Len(d)),
          NatDiv(SubSeq(d, n \div LimbBits + 1, Len(d)), Pow2(n % LimbBits)),
          LAMBDA low, high :
            [quot |-> high.quot,
             dropped |-> high.rem # 0 \/ \E i \in 1..Len(low) : low[i] # 0]))

\* the number of bits of n > 0, and of a
RECURSIVE BitLen(_)
BitLen(n) == IF n = 0 THEN 0 ELSE 1 + BitLen(n \div 2)

NatBitLen(a) ==
  Once(a, LAMBDA d : IF d = <<>> THEN 0 ELSE LimbBits * (Len(d) - 1) + BitLen(d[Len(d)]))

F64Zero == [neg |-> FALSE, m |-> <<>>, x |-> 0]
F64IsZero(v) == v.m = <<>>

\* The number nearest to n * 2^x for a natural number n of s bits more than
\* Precision (s > 0), of the sign neg; sticky: the exact value is a little
\* more than n * 2^x (less than one unit of n more).
F64RoundOff(neg, n, x, sticky, s) ==
  Once2(NatShiftRight(n, s), NatShiftRight(n, s - 1), LAMBDA kept, guarded :
    IF ~(/\ Limb(guarded.quot, 1) % 2 = 1
         /\ sticky \/ guarded.dropped \/ Limb(kept.quot, 1) % 2 = 1)
      THEN [neg |-> neg, m |-> kept.quot, x |-> x + s]
    ELSE Once(NatAdd(kept.quot, <<1>>), LAMBDA up :
           IF NatBitLen(up) > Precision
             THEN [neg |-> neg, m |-> NatShiftRight(up, 1).quot, x |-> x + s + 1]
             ELSE [neg |-> neg, m |-> up, x |-> x + s]))

\* The number nearest to n * 2^x.
F64Round(neg, n, x, sticky) ==
  Once2(n, NatBitLen(n) - Precision, LAMBDA d, s :
    IF d = <<>> THEN F64Zero
    ELSE IF s <= 0 THEN [neg |-> neg, m |-> NatShiftLeft(d, -s), x |-> x + s]
    ELSE F64RoundOff(neg, d, x, sticky, s))

\* p / q for integers p >= 0 and 0 < q of at most 19 bits
QuotientBits == 84
F64Quotient(p, q) ==
  Once(NatDiv(NatShiftLeft(NatOf(p), QuotientBits), q),
       LAMBDA d : F64Round(FALSE, d.quot, -QuotientBits, d.rem # 0))

\* |v| < |w|
F64MagLess(v, w) ==
  IF F64IsZero(w) THEN FALSE
  ELSE IF F64IsZero(v) THEN TRUE
  ELSE IF v.x # w.x THEN v.x < w.x
  ELSE NatLess(v.m, w.m)

\* v < w
F64Less(v, w) ==
  Once2(v, w, LAMBDA a, b :
    IF a.neg # b.neg THEN a.neg
    ELSE IF a.neg THEN F64MagLess(b, a)
    ELSE F64MagLess(a, b))

\* |v| + |w| and |v| - |w| (for |v| >= |w|), of the sign neg
F64MagAdd(neg, v, w) ==
  IF F64IsZero(v) THEN [w EXCEPT !.neg = neg]
  ELSE IF F64IsZero(w) THEN [v EXCEPT !.neg = neg]
  ELSE Once(IF v.x < w.x THEN v.x ELSE w.x, LAMBDA x :
         F64Round(neg, NatAdd(NatShiftLeft(v.m, v.x - x), NatShiftLeft(w.m, w.x - x)),
                  x, FALSE))

F64MagSub(neg, v, w) ==
  IF F64IsZero(w) THEN [v EXCEPT !.neg = neg]
  ELSE F64Round(neg, NatSub(NatShiftLeft(v.m, v.x - w.x), w.m), w.x, FALSE)

F64Neg(v) == Once(v, LAMBDA a : IF F64IsZero(a) THEN a ELSE [a EXCEPT !.neg = ~a.neg])
F64Abs(v) == [v EXCEPT !.neg = FALSE]

\* v + w, v - w, and v * k for an integer k > 0 of at most 19 bits
F64Add(v, w) ==
  Once2(v, w, LAMBDA a, b :
    IF a.neg = b.neg THEN F64MagAdd(a.neg, a, b)
    ELSE IF F64MagLess(a, b) THEN F64MagSub(b.neg, b, a)
    ELSE IF F64MagLess(b, a) THEN F64MagSub(a.neg, a, b)
    ELSE F64Zero)

F64Sub(v, w) == F64Add(v, F64Neg(w))
F64Times(v, k) == Once(v, LAMBDA a : F64Round(a.neg, NatTimes(a.m, k), a.x, FALSE))

\* const imgAspect = imgObj.width / imgObj.height
imgAspect(img) == F64Quotient(img.width, img.height)

\* const boxAspect = boxWidth / boxHeight, for a box whose height is not 0
boxAspect(box) ==
  Once2(box[4] - box[2], box[3] - box[1], LAMBDA boxWidth, boxHeight :
    IF (boxWidth < 0) # (boxHeight < 0)
      THEN F64Neg(F64Quotient(Abs(boxWidth), Abs(boxHeight)))
      ELSE F64Quotient(Abs(boxWidth), Abs(boxHeight)))

\* const aspectDiff = Math.abs(imgAspect - boxAspect)
aspectDiff(img, box) == F64Abs(F64Sub(imgAspect(img), boxAspect(box)))

\* if (aspectDiff > 0.5) continue
aspectRejected(img, box) ==
  CASE BoxAspectKind(box) = "infinite" -> TRUE
    [] BoxAspectKind(box) = "NaN" -> FALSE
    [] OTHER -> F64Less(F64Quotient(1, 2), aspectDiff(img, box))

\* score += (1 - aspectDiff) * 100; if (resolution > 1000000) score += 50
score(img, box) ==
  Once(F64Times(F64Sub(F64Quotient(1, 1), aspectDiff(img, box)), 100), LAMBDA base :
    IF img.width * img.height > 1000000 THEN F64Add(base, F64Quotient(50, 1)) ELSE base)

\* bestScore = -1
NoBestBinary64 ==
  [bestScore |-> F64Neg(F64Quotient(1, 1)), bestImage |-> Null, threw |-> FALSE]

\* The loop over opList.fnArray from index i on, as ScanOps, with the
\* numbers the code computes.  ScanOps holds their exact values, which
\* lead through the same branches wherever no aspect difference or score is
\* within a rounding error of 0.5, of 70 or of another score.
RECURSIVE ScanOpsBinary64(_, _, _, _)
ScanOpsBinary64(pg, box, i, acc) ==
  IF i > Len(pg.fnArray) THEN acc
  ELSE IF pg.fnArray[i] # "paintImageXObject" THEN ScanOpsBinary64(pg, box, i + 1, acc)
  ELSE IF pg.argsArray[i] = <<>> THEN ScanOpsBinary64(pg, box, i + 1, acc)
  ELSE IF ~HasImgObj(pg, pg.argsArray[i][1]) THEN ScanOpsBinary64(pg, box, i + 1, acc)
  ELSE Once(LookupImgObj(pg, pg.argsArray[i][1]), LAMBDA img :
         IF ~PassesSize(img) THEN ScanOpsBinary64(pg, box, i + 1, acc)
         ELSE IF aspectRejected(img, box) THEN ScanOpsBinary64(pg, box, i + 1, acc)
         \* a NaN score is greater than nothing
         ELSE IF BoxAspectKind(box) = "NaN" THEN ScanOpsBinary64(pg, box, i + 1, acc)
         ELSE Once(score(img, box), LAMBDA sc :
                \* if (score > bestScore)
                IF ~F64Less(acc.bestScore, sc) THEN ScanOpsBinary64(pg, box, i + 1, acc)
                ELSE CASE Convert(img) = "throw" ->
                            [acc EXCEPT !.bestScore = sc, !.threw = TRUE]
                       [] Convert(img) = "skip" ->
                            ScanOpsBinary64(pg, box, i + 1, [acc EXCEPT !.bestScore = sc])
                       [] OTHER ->
                            ScanOpsBinary64(pg, box, i + 1,
                                            [acc EXCEPT !.bestScore = sc,
                                                        !.bestImage = Png(img.width, img.height)])))

\* extractBestImageForBox(pdf, pageNumber, box_2d) with the numbers the
\* code computes
extractBestImageForBoxBinary64(pg, box) ==
  Once(ScanOpsBinary64(pg, box, 1, NoBestBinary64), LAMBDA scan :
    IF scan.threw THEN Null                                         \* catch (e)
    ELSE IF F64Less(scan.bestScore, F64Quotient(CONFIDENCE, 1)) THEN Null
    ELSE scan.bestImage)

(***************************************************************************)
(* extractBestImageForBox called on pages whose images lie on and around   *)
(* the thresholds of the scoring.                                          *)
(***************************************************************************)
\* Against a square box: aspect differences of 0, 0.3, 0.31 and 0.5, the
\* second and the last also above a megapixel; one of 0 in a format that
\* is skipped.  Against a box of aspect 2.4: a difference of 0.3.
ScoreImgObjs ==
  { ImgObj(200, 200, 2, 200 * 200 * 3),
    ImgObj(400, 400, 2, 400 * 400 * 3),
    ImgObj(260, 200, 2, 260 * 200 * 3),
    ImgObj(262, 200, 2, 262 * 200 * 3),
    ImgObj(300, 200, 2, 300 * 200 * 3),
    ImgObj(1300, 1000, 2, 1300 * 1000 * 3),
    ImgObj(1500, 1000, 2, 1500 * 1000 * 3),
    ImgObj(200, 200, 1, 25 * 200),
    ImgObj(540, 200, 2, 540 * 200 * 3) }

\* a square box, one of aspect 2.4, one of no area
ScoreBoxes == { <<0, 0, 500, 500>>, <<0, 0, 200, 480>>, <<0, 0, 0, 0>> }

\* Pages of up to MaxOps paint operators, each image held by page.objs.
ScorePages ==
  UNION {{[fnArray |-> [i \in 1..Len(names) |-> "paintImageXObject"],
           argsArray |-> [i \in 1..Len(names) |-> <<names[i]>>],
           displayArgsArray |-> [i \in 1..Len(names) |-> <<names[i]>>],
           commonObjs |-> <<>>, objs |-> objs, view |-> <<600, 800>>] :
             objs \in [Range(names) -> ScoreImgObjs]} :
           names \in SeqsUpTo(ImgNames, MaxOps)}

\* extractBestImageForBox(pdf, pageNumber, box_2d) is called
callExtractBestImageForBoxAlone ==
  /\ app = "score"
  /\ call.pc = "idle"
  /\ call.log = <<>>
  /\ call' = [call EXCEPT !.pc = "native", !.log = <<"extractBestImageForBox">>]
  /\ UNCHANGED <<app, files, selectedPages, apiKeyConfig, service, raster, page, box_2d>>
  /\ UNCHANGED <<seqVars, cancelVars, progress, error>>

\* it settles
ExtractBestAloneDone ==
  /\ app = "score"
  /\ call.pc = "native"
  /\ LET native == extractBestImageForBoxBinary64(page, box_2d)
     IN call' = [call EXCEPT !.pc = "done", !.native = native, !.result = native]
  /\ UNCHANGED <<app, files, selectedPages, apiKeyConfig, service, raster, page, box_2d>>
  /\ UNCHANGED <<seqVars, cancelVars, progress, error>>

InitScore ==
  /\ app = "score"
  /\ page \in ScorePages
  /\ box_2d \in ScoreBoxes
  /\ call = NoCall
  /\ raster = NoRaster
  /\ service = NoService
  /\ files = <<>>
  /\ selectedPages = [f \in {} |-> {}]
  /\ apiKeyConfig = [mode |-> "default", hasKey |-> FALSE]
  /\ status = "idle"
  /\ results = <<>>
  /\ progress = <<>>
  /\ error = "null"
  /\ runs = [r \in Slots |-> NoRun]
  /\ processingState = "idle"
  /\ extractedData = <<>>
  /\ isCancelledRef = FALSE
  /\ task = NoTask

NextScore == callExtractBestImageForBoxAlone \/ ExtractBestAloneDone

SpecScore == InitScore /\ [][NextScore]_vars

(***************************************************************************)
(* renderSinglePage (src/unnamed/part_008) called on its own.              *)
(***************************************************************************)
DEFAULT_SCALE == <<3, 2>>

\* The scale argument: negative, zero, and positive ones.
PageScales == {<<-1, 1>>, <<0, 1>>, <<1, 1>>, DEFAULT_SCALE, <<2, 1>>}

Jpeg(w, h) == [kind |-> "jpeg", width |-> w, height |-> h]
Thrown == [kind |-> "throw", width |-> 0, height |-> 0]

\* canvas.width = value: the value is truncated; a negative one makes the
\* canvas fall back to its default size.
CanvasSide(value, default) == IF value[1] < 0 THEN default ELSE Floor(value)

\* renderSinglePage(pdf, pageNumber, filename, scale), scale a fraction;
\* hasContext: canvas.getContext gives a context; renders: page.render
\* succeeds.  The value is the ImageInfo's image (the data URI of an empty
\* canvas is no JPEG: width and height 0) or the exception, and the calls
\* made in their order.
renderSinglePage(pg, scale, hasContext, renders) ==
  LET width == CanvasSide(Mul(<<pg.view[1], 1>>, scale), 300)
      height == CanvasSide(Mul(<<pg.view[2], 1>>, scale), 150)
  IN IF ~hasContext
       THEN [image |-> Thrown,
             did |-> <<"getPage", "getViewport", "createElement", "getContext">>]
     ELSE IF ~renders
       THEN [image |-> Thrown,
             did |-> <<"getPage", "getViewport", "createElement", "getContext", "render">>]
     ELSE [image |-> IF width = 0 \/ height = 0
                       THEN [kind |-> "data:,", width |-> 0, height |-> 0]
                       ELSE Jpeg(width, height),
           did |-> <<"getPage", "getViewport", "createElement", "getContext", "render",
                     "toDataURL">>]

callRenderSinglePage ==
  /\ app = "page"
  /\ call.pc = "idle"
  /\ call.log = <<>>
  /\ \E scale \in PageScales :
       call' = [call EXCEPT !.pc = "render", !.scale = scale,
                            !.log = <<"renderSinglePage">>]
  /\ UNCHANGED <<app, files, selectedPages, apiKeyConfig, service, raster, page, box_2d>>
  /\ UNCHANGED <<seqVars, cancelVars, progress, error>>

\* it settles
RenderSinglePageDone ==
  /\ app = "page"
  /\ call.pc = "render"
  /\ \E hasContext, renders \in BOOLEAN :
       LET r == renderSinglePage(page, call.scale, hasContext, renders)
       IN call' = [call EXCEPT !.pc = "done", !.result = r.image, !.did = r.did]
  /\ UNCHANGED <<app, files, selectedPages, apiKeyConfig, service, raster, page, box_2d>>
  /\ UNCHANGED <<seqVars, cancelVars, progress, error>>

InitPage ==
  /\ app = "page"
  /\ page \in ApiPages
  /\ box_2d = <<0, 0, 0, 0>>
  /\ call = NoCall
  /\ raster = NoRaster
  /\ service = NoService
  /\ files = <<>>
  /\ selectedPages = [f \in {} |-> {}]
  /\ apiKeyConfig = [mode |-> "default", hasKey |-> FALSE]
  /\ status = "idle"
  /\ results = <<>>
  /\ progress = <<>>
  /\ error = "null"
  /\ runs = [r \in Slots |-> NoRun]
  /\ processingState = "idle"
  /\ extractedData = <<>>
  /\ isCancelledRef = FALSE
  /\ task = NoTask

NextPageRender == callRenderSinglePage \/ RenderSinglePageDone

SpecPage == InitPage /\ [][NextPageRender]_vars

InitCancel ==
  /\ app = "cancel"
  /\ files = FileNames
  /\ selectedPages \in [FileSet -> SUBSET Pages]
  /\ apiKeyConfig \in ApiKeyConfigs
  /\ processingState = "idle"
  /\ extractedData = <<>>
  /\ isCancelledRef = FALSE
  /\ progress = <<0, 0>>
  /\ error = "null"
  /\ task = NoTask
  /\ status = "idle"
  /\ results = <<>>
  /\ runs = [r \in Slots |-> NoRun]
  /\ page = NoPage /\ box_2d = <<0, 0, 0, 0>> /\ call = NoCall /\ raster = NoRaster /\ service = NoService

InitSeq ==
  /\ app = "seq"
  /\ files = FileNames
  /\ selectedPages \in [FileSet -> SUBSET Pages]
  /\ apiKeyConfig \in {c \in ApiKeyConfigs : c.mode = "custom"}
  /\ status = "idle"
  /\ results = <<>>
  /\ progress = <<>>
  /\ error = "null"
  /\ runs = [r \in Slots |-> NoRun]
  /\ processingState = "idle"
  /\ extractedData = <<>>
  /\ isCancelledRef = FALSE
  /\ task = NoTask
  /\ page = NoPage /\ box_2d = <<0, 0, 0, 0>> /\ call = NoCall /\ raster = NoRaster /\ service = NoService

\* The candidates converted: one CMYK pixel of every cyan and black value,
\* one RGB and one RGBA pixel of every red value, and images of up to
\* MaxPixels pixels of every kind whose data is short, 3 or 4 bytes a
\* pixel, or one byte longer.
Candidate(imgObj) == [NoRaster EXCEPT !.pc = "candidate", !.imgObj = imgObj]

InitRaster ==
  /\ app = "raster"
  /\ \/ \E c \in Bytes, k \in Bytes, m \in ByteSamples :
          raster = Candidate(RasterObj(1, 1, 4, <<c, m, m, k>>))
     \/ \E r \in Bytes : raster = Candidate(RasterObj(1, 1, 2, <<r, 0, 255>>))
     \/ \E r \in Bytes, a \in {0, 128, 255} :
          raster = Candidate(RasterObj(1, 1, 3, <<r, 0, 255, a>>))
     \/ \E w \in 1..MaxPixels, k \in 1..4 :
          \E n \in {w, 3 * w, 4 * w, 4 * w + 1} :
            \E data \in [1..n -> ByteSamples] :
              raster = Candidate(RasterObj(w, 1, k, data))
  /\ page = NoPage /\ box_2d = <<0, 0, 0, 0>> /\ call = NoCall /\ service = NoService
  /\ files = <<>>
  /\ selectedPages = [f \in {} |-> {}]
  /\ apiKeyConfig = [mode |-> "default", hasKey |-> FALSE]
  /\ status = "idle"
  /\ results = <<>>
  /\ progress = <<>>
  /\ error = "null"
  /\ runs = [r \in Slots |-> NoRun]
  /\ processingState = "idle"
  /\ extractedData = <<>>
  /\ isCancelledRef = FALSE
  /\ task = NoTask

SpecRaster == InitRaster /\ [][PaintCandidate]_vars

InitService ==
  /\ app = "service"
  /\ \E argKey, envKey, isJpeg \in BOOLEAN :
       service = [NoService EXCEPT !.pc = "called", !.apiKey = argKey,
                                   !.envKey = envKey, !.isJpeg = isJpeg]
  /\ page = NoPage /\ box_2d = <<0, 0, 0, 0>> /\ call = NoCall /\ raster = NoRaster
  /\ files = <<>>
  /\ selectedPages = [f \in {} |-> {}]
  /\ apiKeyConfig = [mode |-> "default", hasKey |-> FALSE]
  /\ status = "idle"
  /\ results = <<>>
  /\ progress = <<>>
  /\ error = "null"
  /\ runs = [r \in Slots |-> NoRun]
  /\ processingState = "idle"
  /\ extractedData = <<>>
  /\ isCancelledRef = FALSE
  /\ task = NoTask

SpecService == InitService /\ [][ServiceSettles]_vars

\* The sequential loop with room for a second invocation of
\* handleStartProcessing while the first is still awaiting: nothing in the
\* code but the disabled Start button stands between the two.
TwoSlots == {1, 2}

InitTwoRuns ==
  /\ app = "seq"
  /\ files = FileNames
  /\ \E selected \in SUBSET Pages :        \* pages of the first file alone
       selectedPages = [f \in FileSet |-> IF f = FileNames[1] THEN selected ELSE {}]
  /\ apiKeyConfig = [mode |-> "custom", hasKey |-> TRUE]
  /\ status = "idle"
  /\ results = <<>>
  /\ progress = <<>>
  /\ error = "null"
  /\ runs = [r \in TwoSlots |-> NoRun]
  /\ processingState = "idle"
  /\ extractedData = <<>>
  /\ isCancelledRef = FALSE
  /\ task = NoTask
  /\ page = NoPage /\ box_2d = <<0, 0, 0, 0>> /\ call = NoCall /\ raster = NoRaster /\ service = NoService

NextTwoRuns ==
  \/ \E r \in Runs : handleStartProcessing(r)
  \/ \E r \in Runs : LoadDone(r)
  \/ \E r \in Runs : RenderDone(r)
  \/ \E r \in Runs : ExtractDone(r)
  \/ handleClearResults
  \/ handleReset

SpecTwoRuns == InitTwoRuns /\ [][NextTwoRuns]_vars

Init == InitSeq \/ InitCancel

Next ==
  \/ \E r \in Runs : handleStartProcessing(r)
  \/ \E r \in Runs : LoadDone(r)
  \/ \E r \in Runs : RenderDone(r)
  \/ \E r \in Runs : ExtractDone(r)
  \/ handleClearResults
  \/ handleReset
  \/ App_handleStartProcessing
  \/ RenderLoadDone
  \/ RenderPageDone
  \/ ExtractReply
  \/ DelayDone
  \/ handleCancelProcessing

Spec == Init /\ [][Next]_vars

\* Every call a run awaits settles: loadPdfDocument, renderSinglePage and
\* extractProductDataFromPage in the sequential loop; the document load and
\* the page rendering of renderPdfPages, generateContent and the delay
\* timer of extractProductInfo in the cancellable one.  The user's actions
\* (start, cancel, clear, reset) are under no obligation to happen.
AwaitedCallsSettle ==
  /\ WF_vars(\E r \in Runs : LoadDone(r))
  /\ WF_vars(\E r \in Runs : RenderDone(r))
  /\ WF_vars(\E r \in Runs : ExtractDone(r))
  /\ WF_vars(RenderLoadDone)
  /\ WF_vars(RenderPageDone)
  /\ WF_vars(ExtractReply)
  /\ WF_vars(DelayDone)

\* Either application, the second file with its first page selected or
\* none.
InitLive == Init /\ selectedPages[FileNames[2]] \subseteq {1}

SpecLive == InitLive /\ [][Next]_vars /\ AwaitedCallsSettle

(***************************************************************************)
(* Properties of the sequential batch loop                                 *)
(***************************************************************************)
IsPrefix(s, t) == Len(s) <= Len(t) /\ SubSeq(t, 1, Len(s)) = s

\* C1: when a page's recognition fails with AUTH_ERROR the run is over
\* (no later page or file is rendered or submitted), the status is 'error'
\* and the results are exactly the products of the pages the run completed
\* before the failing page.
C1_AuthErrorEndsRunWithCompletedPages ==
  \A r \in Runs :
    (runs[r].pc = "error" /\ "AUTH_ERROR" \in runs[r].cause /\ status = "error")
      => results = runs[r].out

\* C2: a page failure that is not an authentication failure never ends the
\* run: the loop goes on with the page (or file) that follows, every
\* selected page gets its iteration, and the run ends with status 'success'.
C2_NonAuthPageFailureNeverStopsRun ==
  [][\A r \in Runs :
       LET a == runs[r]
           b == runs'[r]
       IN /\ (a.pc \in {"render", "extract"} /\ b.pc = "error")
               => "AUTH_ERROR" \in b.cause
          /\ (a.pc \in {"render", "extract"} /\ b # a /\ b.pc \notin {"error", "extract"})
               => \/ b.pc = "render" /\ b.fi = a.fi /\ b.pi = a.pi + 1
                  \/ b.pc = "load" /\ b.fi = a.fi + 1 /\ a.pi = Len(a.sortedPages)
                  \/ /\ b.pc = "success"
                     /\ a.fi = Len(a.plan) /\ a.pi = Len(a.sortedPages)
                     /\ b.processedCount = b.total
                     /\ status' = "success"]_vars

C2_SuccessAfterAbsorbedFailure ==
  \E r \in Runs :
    /\ runs[r].pc = "success" /\ runs[r].absorbed
    /\ status = "success"
    /\ runs[r].processedCount = runs[r].total /\ runs[r].total >= 2

C4_EveryLoadedDocumentDestroyed ==
  \A r \in Runs :
    (Ended(r) \/ runs[r].pc = "load") => runs[r].pdfDoc = "none"

\* C6: while a run is in progress the results list only grows: every step
\* leaves the list a prefix of what it becomes.
C6_ResultsOnlyGrowDuringRun ==
  [][/\ (\E r \in Runs : Running(r)) => IsPrefix(results, results')
     /\ task.pc \notin {"idle", "ended"} => IsPrefix(extractedData, extractedData')]_vars

\* C8: within a file the pages are processed in strictly ascending page
\* order, each selected page once; a page is submitted to recognition only
\* from the completed rendering of that same page; a file is begun only
\* when the last page of the file before it is over.
C8_PagesInAscendingOrderFileByFile ==
  /\ [](\A r \in Runs :
          runs[r].pc \in {"render", "extract"} =>
            LET sp == runs[r].sortedPages
            IN /\ Range(sp) = runs[r].plan[runs[r].fi].pages
               /\ \A i, j \in 1..Len(sp) : i < j => sp[i] < sp[j]
               /\ runs[r].pi \in 1..Len(sp))
  /\ [][\A r \in Runs :
         LET a == runs[r]
             b == runs'[r]
         IN /\ (b.pc = "extract" /\ b # a)
                 => a.pc = "render" /\ b.fi = a.fi /\ b.pi = a.pi
                    /\ b.sortedPages = a.sortedPages
            /\ (b.pc = "render" /\ b # a)
                 => \/ a.pc = "load" /\ b.fi = a.fi /\ b.pi = 1
                    \/ /\ a.pc \in {"render", "extract"}
                       /\ b.fi = a.fi /\ b.pi = a.pi + 1
                       /\ b.sortedPages = a.sortedPages
            /\ (b.pc = "load" /\ b # a)
                 => \/ Ended(r) /\ b.fi = 1
                    \/ /\ a.pc \in {"render", "extract"}
                       /\ a.pi = Len(a.sortedPages) /\ b.fi = a.fi + 1]_vars
  /\ [][(task.pc = "renderPage" /\ task'.pc = "renderPage" /\ task' # task)
         => task'.fi = task.fi /\ task'.page > task.page]_vars

C8_SecondPageOfSecondFileSubmitted ==
  \E r \in Runs :
    /\ runs[r].pc = "extract" /\ runs[r].fi = 2 /\ runs[r].pi = 2
    /\ runs[r].sortedPages = <<1, 2>>

(***************************************************************************)
(* Properties of the cancellable batch loop                                *)
(***************************************************************************)
TaskRunning == task.pc \notin {"idle", "ended"}

\* C5: once handleCancelProcessing has set the cancellation flag, the run
\* begins the rendering of no further page and submits no further page to
\* recognition: only the page operation in progress completes.
C5_NoPageBegunAfterCancel ==
  [][(isCancelledRef /\ TaskRunning) =>
       /\ ~(/\ task'.pc = "renderPage"
            /\ (task.pc # "renderPage" \/ task'.page # task.page \/ task'.fi # task.fi))
       /\ ~(task'.pc = "extract" /\ task'.i # task.i)]_vars

\* C7: extractProductInfo makes at most MAX_RETRIES calls for a page; it
\* waits for a further call only after a rate-limit failure of a call
\* before the last, and only a finished wait begins a further call; when
\* the last call fails too the failure is absorbed by the batch loop, which
\* goes on to the next page (or ends, when that was the last page or the
\* run is cancelled) and never to the 'error' state.
C7_BoundedRetryThenNextPage ==
  /\ [](/\ task.attempt <= MAX_RETRIES
        /\ task.pc = "delay" =>
             isRateLimitError(task.lastError) /\ task.attempt < MAX_RETRIES)
  /\ [][/\ (TaskRunning /\ task'.i = task.i /\ task'.attempt # task.attempt)
             => task.pc = "delay" /\ task'.pc = "extract"
                /\ task'.attempt = task.attempt + 1
        /\ (task.pc = "extract" /\ task.attempt = MAX_RETRIES /\ task' # task)
             => /\ task'.i = task.i + 1
                /\ task'.pc \in {"extract", "ended"}
                /\ task'.pc = "extract" => task'.attempt = 1
                /\ processingState' # "error"
                /\ IsPrefix(extractedData, extractedData')]_vars

C7_FifthCallOfFirstPageInFlight ==
  /\ task.pc = "extract" /\ task.attempt = MAX_RETRIES
  /\ task.i = 1 /\ Len(task.allImages) >= 2
  /\ ~isCancelledRef

(***************************************************************************)
(* Properties of the region image engine                                   *)
(***************************************************************************)
\* The candidates of a page for a box: the indexes of the paint operators
\* whose image object is found, passes the size, and gets a score (the
\* aspect difference is a number not above 0.5).
Candidates(pg, box) ==
  {i \in 1..Len(pg.fnArray) :
     /\ pg.fnArray[i] = "paintImageXObject"
     /\ HasImgObj(pg, pg.argsArray[i][1])
     /\ PassesSize(LookupImgObj(pg, pg.argsArray[i][1]))
     /\ BoxAspectKind(box) = "number"
     /\ ~AspectRejected(LookupImgObj(pg, pg.argsArray[i][1]), box)}
CandidateImg(pg, i) == LookupImgObj(pg, pg.argsArray[i][1])
NativeSettled == call.pc \in {"crop", "done"}

\* C9: extractRegionImage calls extractBestImageForBox first and once; it
\* calls renderHighQualityCrop, at scale 4, exactly when the native
\* extractor returned no image, which it does whenever its scan threw or
\* ended with a best score below the threshold; an image the native
\* extractor returned is the result, without any crop.
C9_NativeFirstCropOnlyAsFallback ==
  LET native == "extractBestImageForBox"
      crop == "renderHighQualityCrop"
      scan == ScanOps(page, box_2d, 1, NoBest)
  IN /\ call.pc # "idle" => Head(call.log) = native
     /\ NativeSettled =>
          /\ call.log \in {<<native>>, <<native, crop>>}
          /\ call.log = <<native, crop>> <=> call.native = Null
          /\ call.log = <<native, crop>> => call.scale = <<CROP_SCALE, 1>>
          /\ (scan.threw \/ Less(scan.bestScore, <<CONFIDENCE, 1>>))
               => call.log = <<native, crop>>
          /\ call.native.kind = "png" => call.pc = "done" /\ call.result = call.native

C9_CropAfterNativeFailure ==
  /\ call.pc = "done"
  /\ call.log = <<"extractBestImageForBox", "renderHighQualityCrop">>
  /\ ScanOps(page, box_2d, 1, NoBest).threw
  /\ call.result.kind = "png"

\* C10: when every candidate of the page scores below 70 (and when there
\* is no candidate), extractBestImageForBox returns null.
C10_BestScoreBelowThresholdGivesNull ==
  (/\ NativeSettled
   /\ \A i \in Candidates(page, box_2d) :
        Less(Score(CandidateImg(page, i), box_2d), <<CONFIDENCE, 1>>))
    => call.native = Null

C10_ConvertibleCandidateBelowThreshold ==
  /\ NativeSettled
  /\ call.native = Null
  /\ \E i \in Candidates(page, box_2d) : Convert(CandidateImg(page, i)) = "png"
  /\ \A i \in Candidates(page, box_2d) :
       /\ Less(Score(CandidateImg(page, i), box_2d), <<CONFIDENCE, 1>>)
       /\ Convert(CandidateImg(page, i)) # "throw"

\* C11: extractBestImageForBox never returns the image of a candidate
\* whose aspect ratio differs from the aspect ratio of the box by more than
\* 0.5: the image returned has the width and height of its candidate, the
\* aspect ratio of the box is a number and the difference is at most 1/2.
C11_ReturnedImageWithinAspectTolerance ==
  (NativeSettled /\ call.native.kind = "png") =>
    /\ BoxAspectKind(box_2d) = "number"
    /\ ~Less(<<1, 2>>, AspectDiff(call.native, box_2d))
    /\ \E i \in Candidates(page, box_2d) :
         /\ CandidateImg(page, i).width = call.native.width
         /\ CandidateImg(page, i).height = call.native.height

\* An image is returned from a page that also paints an image of the
\* required size whose aspect ratio is too far from the box's.
C11_ImageReturnedBesideRejectedCandidate ==
  /\ NativeSettled /\ call.native.kind = "png"
  /\ \E i \in 1..Len(page.fnArray) :
       /\ page.fnArray[i] = "paintImageXObject"
       /\ HasImgObj(page, page.argsArray[i][1])
       /\ PassesSize(CandidateImg(page, i))
       /\ Convert(CandidateImg(page, i)) = "png"
       /\ AspectRejected(CandidateImg(page, i), box_2d)

\* The indexes of the operators of a page, in order, without the paint
\* operators whose image object has an unsupported byte layout.
RECURSIVE SupportedOps(_, _)
SupportedOps(pg, i) ==
  IF i > Len(pg.fnArray) THEN <<>>
  ELSE IF /\ pg.fnArray[i] = "paintImageXObject"
          /\ HasImgObj(pg, pg.argsArray[i][1])
          /\ Convert(CandidateImg(pg, i)) = "skip"
    THEN SupportedOps(pg, i + 1)
  ELSE <<i>> \o SupportedOps(pg, i + 1)

\* The page with every unsupported-format candidate absent from its
\* operator list.
WithoutUnsupported(pg) ==
  LET keep == SupportedOps(pg, 1)
  IN [pg EXCEPT !.fnArray = [k \in 1..Len(keep) |-> pg.fnArray[keep[k]]],
                !.argsArray = [k \in 1..Len(keep) |-> pg.argsArray[keep[k]]]]

\* C12: a candidate with an unsupported byte layout is skipped without any
\* effect: extractBestImageForBox returns what it returns for the page
\* without its unsupported-format candidates.
C12_UnsupportedCandidateHasNoEffect ==
  NativeSettled =>
    call.native = extractBestImageForBox(WithoutUnsupported(page), box_2d)

CropCalled == call.pc = "done" /\ Len(call.log) = 2
BoxEmptyAfterClamp(box) ==
  \/ Clamp1000(box[4]) <= Clamp1000(box[2])
  \/ Clamp1000(box[3]) <= Clamp1000(box[1])

\* C13: for a box that is empty after its coordinates are clamped to
\* 0..1000 (xmax <= xmin or ymax <= ymin, [0,0,0,0] among them),
\* renderHighQualityCrop returns null and renders nothing: it creates no
\* canvas, fetches no operator list and never calls page.render.
C13_EmptyBoxGivesNullWithoutRendering ==
  (CropCalled /\ BoxEmptyAfterClamp(box_2d)) =>
    /\ call.result = Null
    /\ call.did = <<"getPage", "getViewport">>
    /\ call.replayed = <<>>
    /\ page.argsArray = page.displayArgsArray

\* The crop of a box that is empty only once it is clamped.
C13_BoxOffThePageRejected ==
  /\ CropCalled
  /\ box_2d = <<0, 1100, 500, 1300>>
  /\ call.result = Null
  /\ call.did = <<"getPage", "getViewport">>

(***************************************************************************)
(* Properties of the crop renderer and of the two functions called in turn *)
(***************************************************************************)
Last(s) == s[Len(s)]

\* The last call made was renderHighQualityCrop and it returned an image.
CropReturnedImage ==
  /\ call.pc \in {"idle", "done"}
  /\ call.log # <<>>
  /\ Last(call.log) = "renderHighQualityCrop"
  /\ call.result.kind = "png"

\* The crop in page units: the box's share of the page's width and height.
CropWidthOf(pg, box) == Frac((Clamp1000(box[4]) - Clamp1000(box[2])) * pg.view[1], 1000)
CropHeightOf(pg, box) == Frac((Clamp1000(box[3]) - Clamp1000(box[1])) * pg.view[2], 1000)

MinFrac(x, y) == IF Less(y, x) THEN y ELSE x

\* The largest scale not above the requested one that keeps both sides of
\* the output within 4096 pixels.
LargestAllowedScale(cropWidth, cropHeight, requested) ==
  MinFrac(requested, MinFrac(Frac(4096 * cropWidth[2], cropWidth[1]),
                             Frac(4096 * cropHeight[2], cropHeight[1])))

\* C14: the image renderHighQualityCrop returns for a valid box is
\* floor(cropWidth * finalScale) by floor(cropHeight * finalScale) pixels for
\* a finalScale that is at most the requested scale, keeps
\* cropWidth * finalScale and cropHeight * finalScale at or under 4096, and
\* is the requested scale when that scale already keeps both under 4096.
C14_OutputSizeWithinCanvasLimit ==
  CropReturnedImage =>
    LET cropWidth == CropWidthOf(page, box_2d)
        cropHeight == CropHeightOf(page, box_2d)
        requested == call.scale
        limit == <<4096, 1>>
        finalScale == LargestAllowedScale(cropWidth, cropHeight, requested)
    IN /\ call.result.width = Floor(Mul(cropWidth, finalScale))
       /\ call.result.height = Floor(Mul(cropHeight, finalScale))
       /\ ~Less(requested, finalScale)
       /\ ~Less(limit, Mul(cropWidth, finalScale))
       /\ ~Less(limit, Mul(cropHeight, finalScale))
       /\ call.result.width <= 4096 /\ call.result.height <= 4096
       /\ (~Less(limit, Mul(cropWidth, requested)) /\ ~Less(limit, Mul(cropHeight, requested))
             => /\ finalScale = requested
                /\ call.result.width = Floor(Mul(cropWidth, requested))
                /\ call.result.height = Floor(Mul(cropHeight, requested)))

\* The width fits at the requested scale and the height does not: the
\* image returned is 4096 high and narrower than the requested scale gives.
C14_HeightCapApplied ==
  /\ CropReturnedImage
  /\ ~Less(<<4096, 1>>, Mul(CropWidthOf(page, box_2d), call.scale))
  /\ Less(<<4096, 1>>, Mul(CropHeightOf(page, box_2d), call.scale))
  /\ call.result.height = 4096
  /\ call.result.width < Floor(Mul(CropWidthOf(page, box_2d), call.scale))

\* The last call made was renderHighQualityCrop and it went past the text
\* suppression step.
CropSuppressed ==
  /\ call.pc \in {"idle", "done"}
  /\ call.log # <<>>
  /\ Last(call.log) = "renderHighQualityCrop"
  /\ "getOperatorList" \in Range(call.did)

TextOperators ==
  {"showText", "showSpacedText", "nextLineShowText", "nextLineSetSpacingShowText",
   "beginText", "endText", "setCharSpacing", "setWordSpacing"}

\* C15: text suppression keeps the operator list's length and its sequence
\* of operators; the operand list is empty at every position whose operator
\* is one of the eight text operators and is unchanged at every other one.
C15_SuppressionEmptiesTextOperandsOnly ==
  CropSuppressed =>
    /\ page.fnArray = call.before.fnArray
    /\ Len(page.argsArray) = Len(call.before.argsArray)
    /\ \A i \in 1..Len(page.fnArray) :
         page.argsArray[i] = IF page.fnArray[i] \in TextOperators
                               THEN <<>>
                               ELSE call.before.argsArray[i]

\* A list of a text operator with an operand and a path operator has been
\* through the suppression.
C15_TextAndPathSuppressed ==
  /\ CropSuppressed
  /\ call.before = [fnArray |-> <<"setWordSpacing", "constructPath">>,
                    argsArray |-> << <<"spacing">>, <<"path">> >>]
  /\ page.argsArray = << <<>>, <<"path">> >>

\* The last call made was renderHighQualityCrop and it called page.render.
CropRendered == CropSuppressed /\ "render" \in Range(call.did)

\* C16: the operators page.render executes in renderHighQualityCrop are
\* the output of the suppression step, so no text operator is executed with
\* the operands it had before.
C16_RenderReplaysSuppressedList ==
  CropRendered =>
    /\ call.replayed = [i \in 1..Len(page.fnArray) |->
                          [fn |-> page.fnArray[i], args |-> page.argsArray[i]]]
    /\ \A i \in 1..Len(call.replayed) :
         call.replayed[i].fn \in TextOperators => call.replayed[i].args = <<>>

(***************************************************************************)
(* Properties of the conversion to RGBA                                    *)
(***************************************************************************)
\* The layout of a candidate's bytes: 4 bytes a pixel marked CMYK, 3 bytes
\* a pixel, 4 bytes a pixel, or another one.
LayoutOf(imgObj) ==
  LET pixels == imgObj.width * imgObj.height
  IN IF imgObj.kind = 4 /\ Len(imgObj.data) = pixels * 4 THEN "CMYK"
     ELSE IF imgObj.kind # 4 /\ Len(imgObj.data) = pixels * 3 THEN "RGB"
     ELSE IF imgObj.kind # 4 /\ Len(imgObj.data) = pixels * 4 THEN "RGBA"
     ELSE "other"

\* round(p / q) for p >= 0, q > 0 odd
RoundedQuotient(p, q) == (2 * p + q) \div (2 * q)

\* The reference value of byte d (1-based) of the RGBA output.
ReferenceByte(imgObj, d) ==
  LET px == (d - 1) \div 4
      ch == (d - 1) % 4
      data == imgObj.data
  IN CASE LayoutOf(imgObj) = "CMYK" ->
            IF ch = 3 THEN 255
            ELSE RoundedQuotient((255 - data[4 * px + ch + 1]) * (255 - data[4 * px + 4]), 255)
       [] LayoutOf(imgObj) = "RGB" ->
            IF ch = 3 THEN 255 ELSE data[3 * px + ch + 1]
       [] LayoutOf(imgObj) = "RGBA" -> data[d]

\* C17: for a candidate of a supported layout the conversion takes the path
\* of that layout and gives width*height*4 bytes equal to the reference:
\* CMYK to round((255-C)(255-K)/255), round((255-M)(255-K)/255),
\* round((255-Y)(255-K)/255), 255; RGB copied with alpha 255; RGBA copied
\* unchanged.  Every output made has width*height*4 bytes, and an output is
\* made exactly for the candidates the scan of the operators turns into a
\* PNG.
C17_ConversionMatchesReference ==
  raster.pc = "converted" =>
    LET imgObj == raster.imgObj
        pixels == imgObj.width * imgObj.height
    IN /\ LayoutOf(imgObj) # "other" =>
            /\ raster.path = LayoutOf(imgObj)
            /\ raster.imgData = [d \in 1..(pixels * 4) |-> ReferenceByte(imgObj, d)]
       /\ raster.path \in {"CMYK", "RGB", "RGBA"} => Len(raster.imgData) = pixels * 4
       /\ (raster.path \in {"CMYK", "RGB", "RGBA"})
            = (Convert(ImgObj(imgObj.width, imgObj.height, imgObj.kind, Len(imgObj.data))) = "png")
       /\ imgObj = RasterObj(1, 1, 4, <<0, 0, 0, 0>>) => raster.imgData = <<255, 255, 255, 255>>
       /\ imgObj = RasterObj(1, 1, 4, <<0, 0, 0, 255>>) => raster.imgData = <<0, 0, 0, 255>>
       /\ imgObj = RasterObj(1, 1, 4, <<255, 0, 0, 0>>) => raster.imgData = <<0, 255, 255, 255>>

\* A CMYK pixel of cyan 100 and black 100 has been converted:
\* 155 * 155 / 255 = 94.2 and 255 * 155 / 255 = 155.
C17_CMYKPixelConverted ==
  /\ raster.pc = "converted"
  /\ raster.imgObj = RasterObj(1, 1, 4, <<100, 0, 0, 100>>)
  /\ raster.path = "CMYK"
  /\ raster.imgData = <<94, 155, 155, 255>>

CredentialsFailure ==
  \/ ~(service.apiKey \/ service.envKey)
  \/ /\ service.reply.kind = "throw"
     /\ "401" \in service.reply.msg \/ "API key" \in service.reply.msg

\* C19: a call of extractProductDataFromPage ends in a failure tagged
\* AUTH_ERROR, the one the batch loop aborts on, exactly when it failed for
\* invalid or missing credentials; any other failure is not tagged; a reply
\* without data gives the empty list.
C19_AuthErrorExactlyForCredentials ==
  service.pc = "settled" =>
    /\ CredentialsFailure
         <=> (service.outcome.kind = "throw" /\ isAuthError(service.outcome.message))
    /\ service.reply.kind = "text" /\ service.reply.n = 0 => service.outcome = Products(0)

(***************************************************************************)
(* Properties of the progress counter                                      *)
(***************************************************************************)
\* The number of selected pages over the files that have a selection.
SelectedPageCount == SumSizes({f \in Range(files) : f \in DOMAIN selectedPages}, selectedPages)

\* A run is under way: an invocation of the sequential loop, or the
\* extraction loop of the cancellable one.
RunUnderWay ==
  \/ \E r \in Runs : Running(r)
  \/ task.pc \in {"extract", "delay"}

\* C20: the counter shown is within 0..total, a step of a run leaves it or
\* advances it by one, and at the successful end of a run it equals the
\* total, which is the number of selected pages over the files that have a
\* selection.
C20_ProgressCountsEverySelectedPage ==
  /\ [](progress # <<>> => 0 <= progress[1] /\ progress[1] <= progress[2])
  /\ []((app = "seq" /\ status = "success") \/ (app = "cancel" /\ processingState = "done")
          => progress = <<SelectedPageCount, SelectedPageCount>>)
  /\ [][RunUnderWay /\ progress # <<>> /\ progress' # <<>>
          => progress'[1] \in {progress[1], progress[1] + 1}]_vars

(***************************************************************************)
(* Properties of the batch loops as a whole                                *)
(***************************************************************************)
\* C21: at most one invocation of the batch loop is in progress at any
\* moment, so at most one page is being rendered or awaiting recognition
\* and results and progress have one writer, whatever the user does while
\* the loop runs.
C21_AtMostOneRunInProgress == Cardinality({r \in Runs : Running(r)}) <= 1

\* C22: the image attached to a product of the results carries, in every
\* state, the payload that was submitted to the recognition service (a
\* JPEG data URI).
C22_ResultImagesKeepPayload ==
  /\ \A i \in 1..Len(results) : results[i].base64 = "jpeg"
  /\ \A i \in 1..Len(extractedData) : extractedData[i].base64 = "jpeg"

(***************************************************************************)
(* Properties of renderSinglePage                                          *)
(***************************************************************************)
\* C23: renderSinglePage called with a scale of zero or less fails: it
\* returns no image, allocates no canvas and renders nothing.
C23_NonPositiveScaleRejected ==
  (call.pc = "done" /\ call.log = <<"renderSinglePage">> /\ call.scale[1] <= 0) =>
    /\ call.result = Thrown
    /\ "createElement" \notin Range(call.did)
    /\ "render" \notin Range(call.did)

(***************************************************************************)
(* Further properties of extractBestImageForBox                            *)
(***************************************************************************)
\* C24: an image extractBestImageForBox returns is the encoding of a
\* candidate that scores at least 70 and that no other candidate of the
\* scan outscores.
C24_ReturnedImageIsMaximumScoring ==
  (NativeSettled /\ call.native.kind = "png") =>
    \E i \in Candidates(page, box_2d) :
      /\ call.native = Png(CandidateImg(page, i).width, CandidateImg(page, i).height)
      /\ Convert(CandidateImg(page, i)) = "png"
      /\ ~Less(Score(CandidateImg(page, i), box_2d), <<CONFIDENCE, 1>>)
      /\ \A j \in Candidates(page, box_2d) :
           ~Less(Score(CandidateImg(page, i), box_2d), Score(CandidateImg(page, j), box_2d))

\* The paint operators of a page whose image object is found.
PaintedFound(pg) ==
  {i \in 1..Len(pg.fnArray) :
     pg.fnArray[i] = "paintImageXObject" /\ HasImgObj(pg, pg.argsArray[i][1])}

\* C25: a candidate is skipped for its size exactly when its width or its
\* height is below 100, so one of 100 by 100 pixels is scored: on a page
\* whose images all convert, an image of at least 100 by 100 pixels that
\* passes the aspect filter with a score of 70 or more makes
\* extractBestImageForBox return an image.
C25_HundredByHundredIsScored ==
  (/\ NativeSettled
   /\ BoxAspectKind(box_2d) = "number"
   /\ \A i \in PaintedFound(page) : Convert(CandidateImg(page, i)) = "png"
   /\ \E i \in PaintedFound(page) :
        /\ CandidateImg(page, i).width >= 100
        /\ CandidateImg(page, i).height >= 100
        /\ ~AspectRejected(CandidateImg(page, i), box_2d)
        /\ ~Less(Score(CandidateImg(page, i), box_2d), <<CONFIDENCE, 1>>))
    => call.native.kind = "png"

\* The page as a lookup that tries page.objs first would see it: a name
\* held by both tables designates the page-local object.
PageLocalFirst(pg) ==
  [pg EXCEPT !.commonObjs =
     [n \in DOMAIN pg.commonObjs \ DOMAIN pg.objs |-> pg.commonObjs[n]]]

\* C26: an image name is looked up in page.objs first and in
\* page.commonObjs second, so when both hold the name the page-local
\* object is the one scored and converted: extractBestImageForBox returns
\* what it returns on the page where the shared names designate the
\* page-local objects only.
C26_PageLocalObjectPreferred ==
  NativeSettled => call.native = extractBestImageForBox(PageLocalFirst(page), box_2d)

\* C27: the suppression produces a new list and leaves the one obtained
\* from page.getOperatorList as it was: once renderHighQualityCrop has gone
\* through the suppression, the page's list has the operators and the
\* operands it had when the call was made.
C27_FetchedListLeftUnchanged ==
  CropSuppressed =>
    /\ page.fnArray = call.before.fnArray
    /\ page.argsArray = call.before.argsArray

\* xmax <= xmin or ymax <= ymin
InvalidBox(box) == box[4] <= box[2] \/ box[3] <= box[1]

\* C28: for a box without positive width and height, inverted on one axis
\* or on both or of no width or height, extractBestImageForBox returns no
\* image, whatever images the page holds.
C28_InvalidBoxGivesNoImage ==
  (NativeSettled /\ InvalidBox(box_2d)) => call.native = Null

\* The cancellable run has ended after a cancellation was requested.
EndedCancelled == app = "cancel" /\ task.pc = "ended" /\ isCancelledRef

\* The sequential run leaves 'processing' for 'success' or 'error'.
SequentialRunEnds ==
  (app = "seq" /\ status = "processing") ~> (status \in {"success", "error"})

\* The cancellable run leaves 'processing' and 'cancelling' for 'idle',
\* 'done' or 'error'.
CancellableRunEnds ==
  (app = "cancel" /\ processingState \in {"processing", "cancelling"})
    ~> (processingState \in {"idle", "done", "error"})

\* No image stays for ever with extractProductInfo, between its calls of
\* generateContent and its delays.
RetryLoopEnds ==
  \A k \in 1..(Len(FileNames) * MaxPage) :
    (task.pc \in {"extract", "delay"} /\ task.i = k)
      ~> ~(task.pc \in {"extract", "delay"} /\ task.i = k)

\* C29 as stated: every run ends in a terminal status, a run in which
\* cancellation was requested ends in 'idle', and the retry loop ends.
C29_CancelledRunEndsIdle ==
  /\ SequentialRunEnds
  /\ CancellableRunEnds
  /\ RetryLoopEnds
  /\ [](EndedCancelled => processingState = "idle")

\* C29: assuming every awaited call settles, a sequential run that is
\* 'processing' reaches 'success' or 'error' and a cancellable run that is
\* 'processing' or 'cancelling' reaches 'idle', 'done' or 'error'; a run in
\* which cancellation was requested ends in 'idle', or in 'error' when the
\* rendering fails, and never in 'done'; no image stays in the retry loop
\* of extractProductInfo for ever.
C29_EveryRunTerminates ==
  /\ SequentialRunEnds
  /\ CancellableRunEnds
  /\ RetryLoopEnds
  /\ [](EndedCancelled => processingState \in {"idle", "error"})

\* A run cancelled during the extraction has ended in 'idle' with products
\* extracted and images left.
C29_CancelledRunEndedIdle ==
  /\ EndedCancelled
  /\ processingState = "idle"
  /\ extractedData # <<>>
  /\ task.i <= Len(task.allImages)

(***************************************************************************)
(* C30                                                                     *)
(***************************************************************************)
\* The operators of pg that the scoring of extractBestImageForBox reaches
\* with a difference of aspects that is a number and passes the filter.
ScoreCandidates(pg, box) ==
  {i \in 1..Len(pg.fnArray) :
     /\ pg.fnArray[i] = "paintImageXObject"
     /\ pg.argsArray[i] # <<>>
     /\ HasImgObj(pg, pg.argsArray[i][1])
     /\ PassesSize(LookupImgObj(pg, pg.argsArray[i][1]))
     /\ BoxAspectKind(box) = "number"
     /\ ~aspectRejected(LookupImgObj(pg, pg.argsArray[i][1]), box)}

AtLeast(v, k) == ~F64Less(v, F64Quotient(k, 1))
SameScore(v, w) == ~F64Less(v, w) /\ ~F64Less(w, v)

\* every candidate that passes the aspect filter scores at least 50, and at
\* least 100 when it has more than 1,000,000 pixels
ScoreFloors ==
  \A i \in ScoreCandidates(page, box_2d) :
    LET img == CandidateImg(page, i)
    IN /\ AtLeast(score(img, box_2d), 50)
       /\ img.width * img.height > 1000000 => AtLeast(score(img, box_2d), 100)

\* a candidate of at most 1,000,000 pixels meets the threshold exactly when
\* the difference between its aspect and the box's is at most 0.3
ThresholdIsThreeTenths ==
  \A i \in ScoreCandidates(page, box_2d) :
    LET img == CandidateImg(page, i)
    IN img.width * img.height <= 1000000 =>
         (AtLeast(score(img, box_2d), CONFIDENCE)
            <=> ~Less(<<3, 10>>, AspectDiff(img, box_2d)))

\* the image returned is that of a candidate before which no candidate has
\* the same score
FirstOfEqualScoresKept ==
  call.native.kind = "png" =>
    \E i \in ScoreCandidates(page, box_2d) :
      /\ Png(CandidateImg(page, i).width, CandidateImg(page, i).height) = call.native
      /\ Convert(CandidateImg(page, i)) = "png"
      /\ \A j \in ScoreCandidates(page, box_2d) :
           j < i => ~SameScore(score(CandidateImg(page, j), box_2d),
                               score(CandidateImg(page, i), box_2d))

\* C30: once extractBestImageForBox has settled, every candidate that
\* passed the aspect filter scores at least 50, one above 1,000,000 pixels
\* at least 100, one of at most 1,000,000 pixels meets the threshold of 70
\* if and only if its aspect difference is at most 0.3, and of candidates
\* with equal scores the first in the operator list is the one kept.
C30_ThresholdConstrainsSmallCandidates ==
  (app = "score" /\ call.pc = "done") =>
    ScoreFloors /\ ThresholdIsThreeTenths /\ FirstOfEqualScoresKept

====
